---- MODULE Spec2Model ----
(***************************************************************************)
(* Order-matching simulator (BacktestBroker) and portfolio reconciliation  *)
(* engine (Portfolio) of robo-trader.                                      *)
(*                                                                         *)
(* Python floats are modelled as exact rationals <<n, d>> in lowest terms  *)
(* with d > 0; Python's None is the pair <<0, 0>>.  uuid4 identifiers are  *)
(* modelled as fresh consecutive integers: an order's id is its index in   *)
(* the broker's order table, a trade's id is the number of trades created  *)
(* so far plus one.                                                        *)
(***************************************************************************)
EXTENDS Integers, Sequences, FiniteSets, TLC

VARIABLES
    orders,                       \* BacktestBroker.orders (insertion ordered)
    current_prices,               \* BacktestBroker.current_prices
    current_timestamp,            \* BacktestBroker.current_timestamp
    transaction_cost,             \* BacktestBroker.transaction_cost
    trailing_stop_penalty_relief, \* BacktestBroker.trailing_stop_penalty_relief
    cash,                         \* Portfolio.cash
    asset_holdings,               \* Portfolio.asset_holdings
    portfolio_orders,             \* Portfolio.orders: the keys, in insertion order
    processed_trades,             \* Portfolio.processed_trades
    positions,                    \* Portfolio.positions
    valuation_history,            \* Portfolio.valuation_history
    pc,                           \* where Trader.backtest's loop stands
    exchange_orders,              \* the orders CCXTBroker's exchange accepted
    file,                         \* portfolio_<uuid>.json as it is on disk
    loaded,                       \* what Portfolio.from_file last returned
    manager,                      \* the PortfolioManager
    robot                         \* RoboTrader.run: its arguments and locals

vars == <<orders, current_prices, current_timestamp, transaction_cost,
          trailing_stop_penalty_relief, cash, asset_holdings, portfolio_orders,
          processed_trades, positions, valuation_history, pc, exchange_orders,
          file, loaded, manager, robot>>

----------------------------------------------------------------------------
(* Bounds of the model *)

MaxOrders == 4

MaxTicks == 3

\* orders in the table when the broker is driven directly
MaxBrokerOrders == 1

\* ticks when the broker is driven directly
MaxBrokerTicks == 2

\* orders the exchange behind CCXTBroker accepts
MaxExchangeOrders == 2

----------------------------------------------------------------------------
(* Exact arithmetic standing for Python float arithmetic *)

RECURSIVE GCD(_, _)
GCD(a, b) == IF b = 0 THEN a ELSE GCD(b, a % b)

Abs(x) == IF x < 0 THEN -x ELSE x

Norm(n, d) ==
    LET g == GCD(Abs(n), d) IN <<n \div g, d \div g>>

Frac(n, d) == Norm(n, d)

R(n) == <<n, 1>>

None == <<0, 0>>

IsNone(x) == x[2] = 0

\* sums over the least common denominator, products cancelled crosswise, so
\* that no intermediate value is larger than the result requires
RAdd(a, b) ==
    LET g == GCD(a[2], b[2])
    IN Norm(a[1] * (b[2] \div g) + b[1] * (a[2] \div g), (a[2] \div g) * b[2])

RNeg(a) == <<-a[1], a[2]>>

RSub(a, b) == RAdd(a, RNeg(b))

RMul(a, b) ==
    LET g1 == GCD(Abs(a[1]), b[2])
        g2 == GCD(Abs(b[1]), a[2])
    IN IF a[1] = 0 \/ b[1] = 0 THEN <<0, 1>>
       ELSE <<(a[1] \div g1) * (b[1] \div g2), (a[2] \div g2) * (b[2] \div g1)>>

RDiv(a, b) ==
    IF b[1] > 0 THEN RMul(a, <<b[2], b[1]>>) ELSE RMul(a, <<-b[2], -b[1]>>)

RLt(a, b) == a[1] * b[2] < b[1] * a[2]

RLe(a, b) == a[1] * b[2] <= b[1] * a[2]

RMin(a, b) == IF RLe(a, b) THEN a ELSE b

RMax(a, b) == IF RLe(a, b) THEN b ELSE a

----------------------------------------------------------------------------
(* broker.py: the order and trade records *)

MARKET == "MARKET"
LIMIT == "LIMIT"
STOP_LOSS == "STOP_LOSS"
TRAILING_STOP == "TRAILING_STOP"
TAKE_PROFIT == "TAKE_PROFIT"

OrderType == {MARKET, LIMIT, STOP_LOSS, TRAILING_STOP, TAKE_PROFIT}

BUY == "BUY"
SELL == "SELL"

OrderSide == {BUY, SELL}

FILLED == "FILLED"
CANCELLED == "CANCELLED"
PENDING == "PENDING"
PARTIALLY_FILLED == "PARTIALLY_FILLED"

OrderStatus == {FILLED, CANCELLED, PENDING, PARTIALLY_FILLED}

Symbols == {"X", "Y"}

\* datetime None
NoTime == -1

\* timedelta(seconds=1), the clock being counted in seconds
OneSecond == 1

Trade(id, order_id, symbol, order_type, order_side, price, quantity, timestamp, transaction_costs) ==
    [id |-> id, order_id |-> order_id, symbol |-> symbol, order_type |-> order_type,
     order_side |-> order_side, price |-> price, quantity |-> quantity,
     timestamp |-> timestamp, transaction_costs |-> transaction_costs]

Order(id, symbol, order_type, order_side, status, quantity, trail, limit, stop, timestamp) ==
    [id |-> id, symbol |-> symbol, order_type |-> order_type,
     order_side |-> order_side, status |-> status, quantity |-> quantity,
     trail |-> trail, limit |-> limit, stop |-> stop, timestamp |-> timestamp,
     trades |-> <<>>]

----------------------------------------------------------------------------
(* The mutable state of the broker and the portfolio as one record, with   *)
(* the exception (err) an operation ended with, the value it returned and  *)
(* _update_orders' local new_order (0: not bound).                         *)

\* no snapshot has been written yet
NoFile == [exists |-> FALSE, entries |-> <<>>]

\* no PortfolioManager has been constructed and RoboTrader.run is not called
NoManager == [err |-> "not constructed"]

NotRunning == [status |-> "not called"]

\* from_file has not been called
NotLoaded == [err |-> "not called"]

St ==
    [orders |-> orders, current_prices |-> current_prices,
     current_timestamp |-> current_timestamp, cash |-> cash,
     asset_holdings |-> asset_holdings, portfolio_orders |-> portfolio_orders,
     processed_trades |-> processed_trades, positions |-> positions,
     valuation_history |-> valuation_history, err |-> "", ret |-> 0,
     new_order |-> 0]

Raise(s, e) == [s EXCEPT !.err = e]

\* uuid4 for a trade: a fresh id
RECURSIVE CountTrades(_)
CountTrades(os) ==
    IF os = <<>> THEN 0 ELSE Len(Head(os).trades) + CountTrades(Tail(os))

----------------------------------------------------------------------------
(* brokers/backtest_broker.py *)

\* a broker whose price lookup defaults to 1 instead of 0 (C9 depends on
\* the default)
get_price_or_one(s, symbol) ==
    IF IsNone(s.current_prices[symbol]) THEN R(1) ELSE s.current_prices[symbol]

get_price(s, symbol) ==
    IF IsNone(s.current_prices[symbol]) THEN R(0) ELSE s.current_prices[symbol]

\* a broker whose trade costs ignore the quantity traded (C30 depends on the
\* costs being price x quantity x rate)
ExecuteOrderFlatCost(s, id, timestamp, price) ==
    LET order == s.orders[id]
        ts == IF timestamp = NoTime THEN s.current_timestamp ELSE timestamp
        p == IF IsNone(price) THEN get_price(s, order.symbol) ELSE price
        trade == Trade(CountTrades(s.orders) + 1, order.id, order.symbol,
                       order.order_type, order.order_side, p, order.quantity,
                       ts, RMul(p, transaction_cost))
    IN [s EXCEPT !.orders[id].trades = Append(@, trade),
                 !.orders[id].status = FILLED]

\* _execute_order; timestamp NoTime and price None are the defaults
_execute_order(s, id, timestamp, price) ==
    LET order == s.orders[id]
        ts == IF timestamp = NoTime THEN s.current_timestamp ELSE timestamp
        p == IF IsNone(price) THEN get_price(s, order.symbol) ELSE price
        asset_cost == RMul(p, order.quantity)
        cost == RMul(asset_cost, transaction_cost)
        trade == Trade(CountTrades(s.orders) + 1, order.id, order.symbol,
                       order.order_type, order.order_side, p, order.quantity,
                       ts, cost)
    IN [s EXCEPT !.orders[id].trades = Append(@, trade),
                 !.orders[id].status = FILLED]

\* a broker that puts every stop on the other side of the price (C12 depends
\* on a SELL trailing stop lying below the price)
StopAmountMirrored(order_type, order_side, current_price, trail, stop, take_profit) ==
    LET up(f) == RMul(current_price, RAdd(R(1), f))
        down(f) == RMul(current_price, RSub(R(1), f))
    IN CASE order_type = TRAILING_STOP ->
              IF order_side = BUY THEN down(trail) ELSE up(trail)
         [] order_type = TAKE_PROFIT ->
              IF order_side = BUY THEN up(take_profit) ELSE down(take_profit)
         [] order_type = STOP_LOSS ->
              IF order_side = BUY THEN down(stop) ELSE up(stop)
         [] OTHER -> None

StopAmount(order_type, order_side, current_price, trail, stop, take_profit) ==
    LET up(f) == RMul(current_price, RAdd(R(1), f))
        down(f) == RMul(current_price, RSub(R(1), f))
    IN CASE order_type = TRAILING_STOP ->
              IF order_side = BUY THEN up(trail) ELSE down(trail)
         [] order_type = TAKE_PROFIT ->
              IF order_side = BUY THEN down(take_profit) ELSE up(take_profit)
         [] order_type = STOP_LOSS ->
              IF order_side = BUY THEN up(stop) ELSE down(stop)
         [] OTHER -> None

LimitAmount(order_type, order_side, current_price, limit) ==
    IF order_type = LIMIT
    THEN IF order_side = BUY THEN RMul(current_price, RSub(R(1), limit))
         ELSE RMul(current_price, RAdd(R(1), limit))
    ELSE None

\* the fraction a conditional order type computes its level from
LevelArg(order_type, trail, limit, stop, take_profit) ==
    CASE order_type = TRAILING_STOP -> trail
      [] order_type = TAKE_PROFIT -> take_profit
      [] order_type = STOP_LOSS -> stop
      [] order_type = LIMIT -> limit
      [] OTHER -> R(0)

SizingError(quantity, cash_amount, trail, take_profit) ==
    IF (IsNone(quantity) /\ IsNone(cash_amount))
         \/ (~IsNone(quantity) /\ ~IsNone(cash_amount))
    THEN "ValueError: Exactly one of quantity or cash_amount must be provided"
    ELSE IF ~IsNone(quantity) /\ RLe(quantity, R(0))
    THEN "ValueError: Quantity must be positive"
    ELSE IF ~IsNone(cash_amount) /\ RLe(cash_amount, R(0))
    THEN "ValueError: Cash amount must be positive"
    ELSE IF ~IsNone(trail) /\ ~IsNone(take_profit)
    THEN "ValueError: Only one of trail or take_profit can be set"
    ELSE ""

\* a broker that executes MARKET orders only at creation (C10 depends on
\* LIMIT orders being executed too)
FillsMarketOnly(order_type) == order_type = MARKET

FillsAtCreation(order_type) == order_type = MARKET \/ order_type = LIMIT

\* a broker that sizes a cash order without setting the transaction cost
\* aside (C11 depends on the cost being taken off the cash first)
QuantityIgnoringCosts(cash_amount, current_price) ==
    RDiv(cash_amount, current_price)

\* the quantity that cash_amount buys: lines 33-35
QuantityForCash(cash_amount, current_price) ==
    RDiv(RSub(cash_amount, RMul(cash_amount, transaction_cost)), current_price)

create_order(s, symbol, order_type, order_side, quantity, cash_amount, trail, limit, stop, take_profit) ==
    LET verr == SizingError(quantity, cash_amount, trail, take_profit)
        current_price == get_price(s, symbol)
    IN IF verr # "" THEN Raise(s, verr)
       ELSE IF RLe(current_price, R(0)) THEN Raise(s, "ValueError: Invalid price")
       ELSE IF IsNone(LevelArg(order_type, trail, limit, stop, take_profit))
       THEN Raise(s, "TypeError")   \* 1 + None
       ELSE
         LET qty == IF IsNone(quantity)
                    THEN QuantityForCash(cash_amount, current_price)
                    ELSE quantity
             stop_amount == StopAmount(order_type, order_side, current_price,
                                       trail, stop, take_profit)
             trail_amount == IF IsNone(trail) THEN None
                             ELSE RMul(trail, current_price)
             limit_amount == LimitAmount(order_type, order_side, current_price, limit)
             order_id == Len(s.orders) + 1
             order == Order(order_id, symbol, order_type, order_side, PENDING, qty,
                            trail_amount, limit_amount, stop_amount,
                            s.current_timestamp)
             s1 == [s EXCEPT !.orders = Append(@, order), !.ret = order_id]
         IN IF FillsAtCreation(order_type)
            THEN _execute_order(s1, order_id, NoTime, None)
            ELSE s1

edit_order(s, order_id, stop) ==
    IF order_id \in DOMAIN s.orders
    THEN [s EXCEPT !.orders[order_id].stop = stop]
    ELSE s

cancel_order(s, order_id) ==
    IF order_id \in DOMAIN s.orders
    THEN [s EXCEPT !.orders[order_id].status = CANCELLED]
    ELSE s

\* a broker that moves the stop to the recomputed level on every tick (C4
\* depends on the comparison)
TrailAlwaysMoves(order_side, new_stop, stop) == TRUE

\* a broker that compares the wrong way round (C5 depends on the direction)
TrailLoosens(order_side, new_stop, stop) ==
    IF order_side = BUY THEN RLt(stop, new_stop) ELSE RLt(new_stop, stop)

\* whether a new trailing stop level replaces the order's stop
TrailTightens(order_side, new_stop, stop) ==
    IF order_side = BUY THEN RLt(new_stop, stop) ELSE RLt(stop, new_stop)

\* a broker that fills a trailing stop at the tick price whatever the relief
\* (C14 depends on the relief moving the fill towards the stop)
TradePriceAtTick(current_price, stop) == current_price

\* the price a trailing stop fills at: lines 104-105
TrailingTradePrice(current_price, stop) ==
    RSub(current_price,
         RMul(RSub(current_price, stop), trailing_stop_penalty_relief))

\* a broker that fills a fixed-level order only once the price is past its
\* level (C28 depends on a price at the level filling the order)
LevelPassed(order, current_price) ==
    IF order.order_type = STOP_LOSS
    THEN (order.order_side = BUY /\ RLt(order.stop, current_price))
            \/ (order.order_side = SELL /\ RLt(current_price, order.stop))
    ELSE (order.order_side = BUY /\ RLt(current_price, order.stop))
            \/ (order.order_side = SELL /\ RLt(order.stop, current_price))

\* whether the tick's price fills a STOP_LOSS (lines 99-100) or a TAKE_PROFIT
\* (lines 125-130)
LevelReached(order, current_price) ==
    IF order.order_type = STOP_LOSS
    THEN (order.order_side = BUY /\ RLe(order.stop, current_price))
            \/ (order.order_side = SELL /\ RLe(current_price, order.stop))
    ELSE (order.order_side = BUY /\ RLe(current_price, order.stop))
            \/ (order.order_side = SELL /\ RLe(order.stop, current_price))

\* the body of update's loop for one order
UpdateOrder(s, id) ==
    LET order == s.orders[id]
        current_price == s.current_prices[order.symbol]
    IN IF order.status # PENDING \/ IsNone(current_price) THEN s
       ELSE CASE order.order_type = STOP_LOSS ->
                   IF LevelReached(order, current_price)
                   THEN _execute_order(s, id, NoTime, None)
                   ELSE s
              [] order.order_type = TRAILING_STOP ->
                   LET price_difference == RSub(current_price, order.stop)
                       trade_price == TrailingTradePrice(current_price, order.stop)
                       trade_timestamp == s.current_timestamp - OneSecond
                       fills == IF order.order_side = BUY
                                THEN RLe(R(0), price_difference)
                                ELSE RLe(price_difference, R(0))
                       new_stop == IF order.order_side = BUY
                                   THEN RAdd(current_price, order.trail)
                                   ELSE RSub(current_price, order.trail)
                   IN IF fills
                      THEN _execute_order(s, id, trade_timestamp, trade_price)
                      ELSE IF TrailTightens(order.order_side, new_stop, order.stop)
                      THEN [s EXCEPT !.orders[id].stop = new_stop]
                      ELSE s
              [] order.order_type = TAKE_PROFIT ->
                   IF LevelReached(order, current_price)
                   THEN _execute_order(s, id, NoTime, None)
                   ELSE s
              [] OTHER -> s

RECURSIVE UpdateOrdersFrom(_, _)
UpdateOrdersFrom(s, id) ==
    IF id > Len(s.orders) THEN s
    ELSE UpdateOrdersFrom(UpdateOrder(s, id), id + 1)

broker_update(s, timestamp, prices) ==
    UpdateOrdersFrom([s EXCEPT !.current_timestamp = timestamp,
                               !.current_prices = prices], 1)

----------------------------------------------------------------------------
(* brokers/ccxt_broker.py: CCXTBroker.create_order.  The exchange is outside *)
(* the program: each call to it either accepts the request or fails with    *)
(* one of the two errors the broker catches.                                *)

ExchangeOutcomes == {"accepted", "NetworkError", "ExchangeError"}

\* _convert_order_type
_convert_order_type(order_type) ==
    CASE order_type = MARKET -> "market"
      [] order_type = LIMIT -> "limit"
      [] order_type = STOP_LOSS -> "stop"
      [] order_type = TRAILING_STOP -> "trailing_stop"
      [] order_type = TAKE_PROFIT -> "take_profit"
      [] OTHER -> "market"

\* if x: the truth value of an optional float
Truthy(x) == ~IsNone(x) /\ x[1] # 0

\* params: only the truthy arguments are passed on
ExchangeParams(trail, limit, stop, take_profit) ==
    [trailingAmount |-> IF Truthy(trail) THEN trail ELSE None,
     price |-> IF Truthy(limit) THEN limit ELSE None,
     stopPrice |-> IF Truthy(stop) THEN stop ELSE None,
     takeProfitPrice |-> IF Truthy(take_profit) THEN take_profit ELSE None]

\* the request CCXTBroker sends: exchange.create_order for a quantity,
\* exchange.create_market_buy_order / create_market_sell_order for a cash amount
ExchangeRequest(symbol, order_type, order_side, quantity, cash_amount, trail, limit, stop, take_profit) ==
    IF ~IsNone(quantity)
    THEN [symbol |-> symbol, type |-> _convert_order_type(order_type),
          side |-> order_side, amount |-> quantity,
          params |-> ExchangeParams(trail, limit, stop, take_profit)]
    ELSE [symbol |-> symbol, type |-> "market", side |-> order_side,
          amount |-> cash_amount,
          params |-> ExchangeParams(None, None, None, None)]

\* CCXTBroker.create_order: ex is the exchange's accepted orders, outcome the
\* exchange's answer; the result carries the exception raised, if any
ccxt_create_order(ex, symbol, order_type, order_side, quantity, cash_amount, trail, limit, stop, take_profit, outcome) ==
    IF IsNone(quantity) /\ IsNone(cash_amount)
    THEN [exchange_orders |-> ex,
          err |-> "ValueError: Either quantity or cash_amount must be provided"]
    ELSE IF outcome = "NetworkError"
    THEN [exchange_orders |-> ex, err |-> "Exception: Network error"]
    ELSE IF outcome = "ExchangeError"
    THEN [exchange_orders |-> ex, err |-> "Exception: Exchange error"]
    ELSE [exchange_orders |->
              Append(ex, ExchangeRequest(symbol, order_type, order_side, quantity,
                                         cash_amount, trail, limit, stop,
                                         take_profit)),
          err |-> ""]

----------------------------------------------------------------------------
(* portfolio.py: Position *)

LONG == "long"
SHORT == "short"

Position(symbol, side, amount_invested, trail_percentage, take_profit_percentage, stop_percentage) ==
    [symbol |-> symbol, side |-> side, amount_invested |-> amount_invested,
     trail_percentage |-> trail_percentage,
     take_profit_percentage |-> take_profit_percentage,
     stop_percentage |-> stop_percentage, is_open |-> TRUE, open_price |-> None,
     close_price |-> None, quantity |-> None, order_ids |-> <<>>]

set_quantity(position, quantity) ==
    [position EXCEPT !.quantity = quantity,
                     !.open_price = IF quantity[1] # 0
                                    THEN RDiv(position.amount_invested, quantity)
                                    ELSE None]

close(position, close_price) ==
    [position EXCEPT !.is_open = FALSE, !.close_price = close_price]

----------------------------------------------------------------------------
(* portfolio.py: Portfolio.save and Portfolio.from_file.  The file holds   *)
(* the top-level entries of the JSON object in the order json.dump writes  *)
(* them; a file with fewer entries than SnapshotKeys is a truncated write. *)

\* json.dump(default=str) writes a datetime as its string, and json.load
\* gives the string back: the string of the datetime t is modelled as the
\* integer -(t + 2), distinct from every datetime and from None
DateString(t) == IF t = NoTime THEN NoTime ELSE -(t + 2)

\* trade.__dict__ as json.dump writes it
JsonTrade(trade) == [trade EXCEPT !.timestamp = DateString(@)]

\* {**order.__dict__, "trades": [trade.__dict__ for trade in order.trades]}
JsonOrder(order) ==
    [order EXCEPT !.timestamp = DateString(@),
                  !.trades = [k \in DOMAIN order.trades |-> JsonTrade(order.trades[k])]]

\* {**pos.__dict__, "side": str(pos.side)}: every attribute of the Position
JsonPosition(position) == position

\* an entry of valuation_history as json.dump writes it
JsonValuation(entry) == [entry EXCEPT !.timestamp = DateString(@)]

\* list(self.processed_trades)
RECURSIVE SetToSeq(_)
SetToSeq(S) ==
    IF S = {} THEN <<>>
    ELSE LET x == CHOOSE y \in S : \A z \in S : y <= z
         IN <<x>> \o SetToSeq(S \ {x})

\* the keys of the state dictionary, in the order save builds it
SnapshotKeys ==
    <<"cash", "asset_holdings", "orders", "processed_trades", "positions",
      "valuation_history", "uuid", "autosave">>

\* the value save writes under each key
SnapshotValue(s, key) ==
    CASE key = "cash" -> s.cash
      [] key = "asset_holdings" -> s.asset_holdings
      [] key = "orders" ->
            [k \in DOMAIN s.portfolio_orders |->
                JsonOrder(s.orders[s.portfolio_orders[k]])]
      [] key = "processed_trades" -> SetToSeq(s.processed_trades)
      [] key = "positions" ->
            [k \in DOMAIN s.positions |-> JsonPosition(s.positions[k])]
      [] key = "valuation_history" ->
            [k \in DOMAIN s.valuation_history |->
                JsonValuation(s.valuation_history[k])]
      [] key = "uuid" -> "uuid"
      [] key = "autosave" -> TRUE

\* line 170, open(filename, 'w'): the file exists and is empty
OpenForWriting == [exists |-> TRUE, entries |-> <<>>]

\* json.dump has written one more entry of the state of s
WriteNextEntry(f, s) ==
    LET key == SnapshotKeys[Len(f.entries) + 1]
    IN [f EXCEPT !.entries = Append(@, <<key, SnapshotValue(s, key)>>)]

\* the file holds the whole JSON object
IsComplete(f) == f.exists /\ Len(f.entries) = Len(SnapshotKeys)

\* Position(**{**pos_dict, "side": PositionSide(pos_dict["side"])}): the
\* dictionary holds every attribute of the saved Position, and __init__
\* accepts neither is_open, open_price, close_price, quantity nor order_ids
LoadPositions(ps) ==
    IF ps = <<>> THEN [err |-> "", positions |-> <<>>]
    ELSE [err |-> "TypeError", positions |-> <<>>]

\* the elements of a list
Range(seq) == {seq[k] : k \in DOMAIN seq}

\* the Portfolio that from_file builds from the entries; ps is the outcome
\* of building the positions
BuildPortfolio(entries, ps) ==
    IF ps.err # "" THEN [err |-> ps.err]
    ELSE [err |-> "",
          cash |-> entries[1][2],
          asset_holdings |-> entries[2][2],
          orders |-> entries[3][2],
          processed_trades |-> Range(entries[4][2]),
          positions |-> ps.positions,
          valuation_history |-> entries[6][2],
          uuid |-> entries[7][2],
          autosave |-> entries[8][2]]

\* from_file(broker, filename)
from_file(f) ==
    IF ~f.exists THEN [err |-> "FileNotFoundError"]
    ELSE IF ~IsComplete(f) THEN [err |-> "JSONDecodeError"]
    ELSE BuildPortfolio(f.entries, LoadPositions(f.entries[5][2]))

----------------------------------------------------------------------------
(* portfolio.py: Portfolio *)

ProtectiveTypes == {TRAILING_STOP, TAKE_PROFIT, STOP_LOSS}

\* asset_holdings.get(symbol, 0)
Holding(s, symbol) ==
    IF IsNone(s.asset_holdings[symbol]) THEN R(0) ELSE s.asset_holdings[symbol]

\* a portfolio that never finds itself long (C21 depends on the test that
\* ends open_long early)
IsLongNever(s, symbol) == FALSE

is_long(s, symbol) ==
    ~IsNone(s.asset_holdings[symbol]) /\ RLt(R(0), s.asset_holdings[symbol])

\* next((pos for pos in positions if pos.symbol == symbol and pos.is_open), None)
RECURSIVE FirstOpenPosition(_, _, _)
FirstOpenPosition(ps, symbol, i) ==
    IF i > Len(ps) THEN 0
    ELSE IF ps[i].symbol = symbol /\ ps[i].is_open THEN i
    ELSE FirstOpenPosition(ps, symbol, i + 1)

\* self.orders[order.id] = order
AddOrder(ids, id) ==
    IF \E i \in DOMAIN ids : ids[i] = id THEN ids ELSE Append(ids, id)

\* del self.orders[id]
DelOrder(ids, id) == SelectSeq(ids, LAMBDA x : x # id)

\* a portfolio that applies a trade whether or not it has seen it (C1
\* depends on the processed_trades test)
UnprocessedAlways(s, trade) == TRUE

\* whether _process_order applies a trade
Unprocessed(s, trade) == trade.id \notin s.processed_trades

\* the take profit / stop loss sibling that a filled order cancels:
\* next((o for o in self.orders.values() if ...), None), 0 when there is none
OtherOrder(s, order, trade) ==
    LET other_order_type ==
            IF order.order_type = TAKE_PROFIT THEN STOP_LOSS ELSE TAKE_PROFIT
        found ==
            SelectSeq(s.portfolio_orders,
                      LAMBDA id : /\ s.orders[id].symbol = trade.symbol
                                  /\ s.orders[id].order_type = other_order_type
                                  /\ s.orders[id].status = PENDING)
    IN IF found = <<>> THEN 0 ELSE found[1]

\* a portfolio that leaves the sibling order alone (C3 depends on the
\* cancellation)
CancelNone(s, order, trade) == s

CancelOther(s, order, trade) ==
    IF order.order_type \in {TAKE_PROFIT, STOP_LOSS}
    THEN LET other == OtherOrder(s, order, trade)
         IN IF other # 0 THEN cancel_order(s, other) ELSE s
    ELSE s

\* a portfolio that forgets the transaction costs of a BUY trade (C2 depends
\* on the costs)
ApplyBuyNoCosts(s, order, trade) ==
    LET i == FirstOpenPosition(s.positions, trade.symbol, 1)
        s1 == [s EXCEPT !.cash = RSub(@, RMul(trade.price, trade.quantity)),
                        !.asset_holdings[trade.symbol] =
                            RAdd(Holding(s, trade.symbol), trade.quantity)]
    IN IF i # 0
       THEN [s1 EXCEPT !.positions[i] = set_quantity(@, trade.quantity)]
       ELSE s1

ApplyBuy(s, order, trade) ==
    LET i == FirstOpenPosition(s.positions, trade.symbol, 1)
        s1 == [s EXCEPT !.cash = RSub(@, RAdd(RMul(trade.price, trade.quantity),
                                              trade.transaction_costs)),
                        !.asset_holdings[trade.symbol] =
                            RAdd(Holding(s, trade.symbol), trade.quantity)]
    IN IF i # 0
       THEN [s1 EXCEPT !.positions[i] = set_quantity(@, trade.quantity)]
       ELSE s1

\* a portfolio that forgets the transaction costs of a SELL trade (C15
\* depends on both legs of a round trip paying their costs)
ApplySellNoCosts(s, order, trade) ==
    LET i == FirstOpenPosition(s.positions, trade.symbol, 1)
        s1 == [s EXCEPT !.cash = RAdd(@, RMul(trade.price, trade.quantity)),
                        !.asset_holdings[trade.symbol] =
                            RSub(Holding(s, trade.symbol), trade.quantity)]
    IN IF i # 0
       THEN CancelOther([s1 EXCEPT !.positions[i] = close(@, trade.price)],
                        order, trade)
       ELSE s1

ApplySell(s, order, trade) ==
    LET i == FirstOpenPosition(s.positions, trade.symbol, 1)
        s1 == [s EXCEPT !.cash = RAdd(@, RSub(RMul(trade.price, trade.quantity),
                                              trade.transaction_costs)),
                        !.asset_holdings[trade.symbol] =
                            RSub(Holding(s, trade.symbol), trade.quantity)]
    IN IF i # 0
       THEN CancelOther([s1 EXCEPT !.positions[i] = close(@, trade.price)],
                        order, trade)
       ELSE s1

\* the body of _process_order's loop for one trade
ProcessTrade(s, order, trade) ==
    IF Unprocessed(s, trade)
    THEN LET s1 == IF order.order_side = BUY THEN ApplyBuy(s, order, trade)
                   ELSE ApplySell(s, order, trade)
         IN [s1 EXCEPT !.processed_trades = @ \cup {trade.id}]
    ELSE s

RECURSIVE ProcessTradesFrom(_, _, _)
ProcessTradesFrom(s, order_id, k) ==
    IF k > Len(s.orders[order_id].trades) THEN s
    ELSE ProcessTradesFrom(
             ProcessTrade(s, s.orders[order_id], s.orders[order_id].trades[k]),
             order_id, k + 1)

_process_order(s, order_id) == ProcessTradesFrom(s, order_id, 1)

\* the first loop of _update_orders; fetch_order returns the broker's own object
RECURSIVE ReconcileFrom(_, _)
ReconcileFrom(s, i) ==
    IF i > Len(s.portfolio_orders) THEN s
    ELSE ReconcileFrom(_process_order(s, s.portfolio_orders[i]), i + 1)

\* the minimum trail of a tightened trailing stop, 0.001
MinTrail == Frac(1, 1000)

ActiveSellOrders(s, position) ==
    SelectSeq(s.portfolio_orders,
              LAMBDA id : /\ s.orders[id].symbol = position.symbol
                          /\ s.orders[id].order_side = SELL
                          /\ s.orders[id].order_type \in ProtectiveTypes
                          /\ s.orders[id].status \notin {FILLED, CANCELLED})

\* if 'new_order' in locals(): record it and attach it to the position;
\* an exception raised before this line leaves the iteration
AttachNewOrder(s, i) ==
    IF s.err = "" /\ s.new_order # 0
    THEN [s EXCEPT !.portfolio_orders = AddOrder(@, s.new_order),
                   !.positions[i].order_ids = Append(@, s.new_order)]
    ELSE s

\* new_order = self.broker.create_order(...): r is the broker after the call
BindNewOrder(r) == IF r.err # "" THEN r ELSE [r EXCEPT !.new_order = r.ret]

\* self.orders[...] = ... and position.order_ids.extend(...) for the take
\* profit and the stop loss order; r2 is the broker after the second call
RecordPair(r2, i, take_profit_order) ==
    IF r2.err # "" THEN r2
    ELSE AttachNewOrder(
             [r2 EXCEPT !.portfolio_orders =
                            AddOrder(AddOrder(@, take_profit_order), r2.ret),
                        !.positions[i].order_ids =
                            @ \o <<take_profit_order, r2.ret>>], i)

\* the stop loss order that follows the take profit order; r1 is the broker
\* after the take profit order's create_order
SubmitStopLoss(r1, i) ==
    IF r1.err # "" THEN r1
    ELSE RecordPair(create_order(r1, r1.positions[i].symbol, STOP_LOSS, SELL,
                                 r1.positions[i].quantity, None, None, None,
                                 r1.positions[i].stop_percentage, None),
                    i, r1.ret)

\* no active protective order: submit the position's configured protection
SubmitProtection(s, i) ==
    LET position == s.positions[i]
    IN IF ~IsNone(position.trail_percentage)
       THEN AttachNewOrder(
                BindNewOrder(create_order(s, position.symbol, TRAILING_STOP, SELL,
                                          position.quantity, None,
                                          position.trail_percentage, None, None,
                                          None)), i)
       ELSE IF ~IsNone(position.take_profit_percentage)
               /\ ~IsNone(position.stop_percentage)
       THEN SubmitStopLoss(create_order(s, position.symbol, TAKE_PROFIT, SELL,
                                        position.quantity, None, None, None, None,
                                        position.take_profit_percentage), i)
       ELSE s   \* continue

\* a portfolio that replaces the trailing stop whatever the new level (C24
\* depends on the comparison with the active order's stop)
RatchetsAlways(new_stop_price, stop) == TRUE

\* whether the tightened trailing stop replaces the active one
Ratchets(new_stop_price, stop) == RLt(stop, new_stop_price)

ProfitPercentage(position, current_price) ==
    RDiv(RSub(current_price, position.open_price), position.open_price)

\* the trail the tightening computes from the profit
NewTrailPercentage(position, current_price) ==
    LET take_profit_coverage ==
            RDiv(ProfitPercentage(position, current_price),
                 position.take_profit_percentage)
    IN RMax(RMul(position.trail_percentage,
                 RSub(R(1), RMin(take_profit_coverage, R(1)))), MinTrail)

\* cancel the active trailing stop and create the tighter one
ReplaceTrail(s, i, trailing_stop_order, new_trail_percentage) ==
    IF Ratchets(RMul(get_price(s, s.positions[i].symbol),
                     RSub(R(1), new_trail_percentage)),
                s.orders[trailing_stop_order].stop)
    THEN BindNewOrder(create_order(cancel_order(s, trailing_stop_order),
                                   s.positions[i].symbol, TRAILING_STOP, SELL,
                                   s.positions[i].quantity, None,
                                   new_trail_percentage, None, None, None))
    ELSE s

\* an active trailing stop and a price above the open price: tighten the trail
TightenTrail(s, i, trailing_stop_order) ==
    LET position == s.positions[i]
    IN IF ~RLt(R(0), ProfitPercentage(position, get_price(s, position.symbol)))
       THEN s
       ELSE IF IsNone(position.take_profit_percentage) THEN Raise(s, "TypeError")
       ELSE IF position.take_profit_percentage[1] = 0
       THEN Raise(s, "ZeroDivisionError")
       ELSE IF IsNone(position.trail_percentage) THEN Raise(s, "TypeError")
       ELSE ReplaceTrail(s, i, trailing_stop_order,
                         NewTrailPercentage(position,
                                            get_price(s, position.symbol)))

\* the body of _update_orders' second loop for one position
ProtectPosition(s, i) ==
    LET position == s.positions[i]
        active_sell_orders == ActiveSellOrders(s, position)
        trailing == SelectSeq(active_sell_orders,
                              LAMBDA id : s.orders[id].order_type = TRAILING_STOP)
    IN IF ~(position.is_open /\ position.side = LONG /\ ~IsNone(position.quantity))
       THEN s
       ELSE IF active_sell_orders = <<>>
       THEN SubmitProtection(s, i)
       ELSE IF trailing = <<>> THEN AttachNewOrder(s, i)
       ELSE IF IsNone(position.open_price) THEN Raise(s, "TypeError")
       ELSE IF position.open_price[1] = 0 /\ RLt(R(0), get_price(s, position.symbol))
       THEN Raise(s, "ZeroDivisionError")
       ELSE IF RLt(position.open_price, get_price(s, position.symbol))
       THEN AttachNewOrder(TightenTrail(s, i, trailing[1]), i)
       ELSE AttachNewOrder(s, i)

RECURSIVE ProtectFrom(_, _)
ProtectFrom(s, i) ==
    IF i > Len(s.positions) \/ s.err # "" THEN s
    ELSE ProtectFrom(ProtectPosition(s, i), i + 1)

_update_orders(s) ==
    ProtectFrom([ReconcileFrom(s, 1) EXCEPT !.new_order = 0], 1)

\* an open_long that lets a stop percentage through without a take profit
\* percentage (C20 depends on the third check)
OpenLongErrorTwoChecks(cash_percentage, trail_percentage, take_profit_percentage, stop_percentage) ==
    IF RLe(cash_percentage, R(0)) \/ RLt(R(1), cash_percentage)
    THEN "ValueError: Percentage must be between 0 and 1"
    ELSE IF ~IsNone(trail_percentage) /\ ~IsNone(stop_percentage)
    THEN "ValueError: Trail percentage cannot be used with stop loss"
    ELSE ""

OpenLongError(cash_percentage, trail_percentage, take_profit_percentage, stop_percentage) ==
    IF RLe(cash_percentage, R(0)) \/ RLt(R(1), cash_percentage)
    THEN "ValueError: Percentage must be between 0 and 1"
    ELSE IF ~IsNone(trail_percentage) /\ ~IsNone(stop_percentage)
    THEN "ValueError: Trail percentage cannot be used with stop loss"
    ELSE IF ~IsNone(stop_percentage) /\ IsNone(take_profit_percentage)
    THEN "ValueError: Stop percentage always requires a take profit percentage"
    ELSE ""

\* the position opened by the market order; r is the broker after create_order
RecordPosition(r, position) ==
    IF r.err # "" THEN r
    ELSE _update_orders([r EXCEPT !.portfolio_orders = AddOrder(@, r.ret),
                                  !.positions =
                                      Append(@, [position EXCEPT
                                                    !.order_ids = <<r.ret>>])])

open_long(s, symbol, cash_percentage, trail_percentage, take_profit_percentage, stop_percentage) ==
    LET verr == OpenLongError(cash_percentage, trail_percentage,
                              take_profit_percentage, stop_percentage)
        amount_to_invest == RMul(s.cash, cash_percentage)
    IN IF verr # "" THEN Raise(s, verr)
       ELSE IF is_long(s, symbol) THEN s
       ELSE RecordPosition(
                create_order(s, symbol, MARKET, BUY, None, amount_to_invest,
                             None, None, None, None),
                Position(symbol, LONG, amount_to_invest, trail_percentage,
                         take_profit_percentage, stop_percentage))

\* cancel at the broker and forget every pending protective sell order
RECURSIVE CancelAll(_, _)
CancelAll(s, ids) ==
    IF ids = <<>> THEN s
    ELSE CancelAll([cancel_order(s, Head(ids))
                    EXCEPT !.portfolio_orders = DelOrder(@, Head(ids))], Tail(ids))

RECURSIVE FirstOpenLong(_, _, _)
FirstOpenLong(ps, symbol, i) ==
    IF i > Len(ps) THEN 0
    ELSE IF ps[i].symbol = symbol /\ ps[i].is_open /\ ps[i].side = LONG THEN i
    ELSE FirstOpenLong(ps, symbol, i + 1)

\* the closing market order recorded with the position; r is the broker
\* after create_order
RecordClose(r, i) ==
    IF r.err # "" THEN r
    ELSE _update_orders([r EXCEPT !.portfolio_orders = AddOrder(@, r.ret),
                                  !.positions[i].order_ids = Append(@, r.ret)])

close_long(s, symbol) ==
    LET i == FirstOpenLong(s.positions, symbol, 1)
        pending_sell_orders ==
            SelectSeq(s.portfolio_orders,
                      LAMBDA id : /\ s.orders[id].symbol = symbol
                                  /\ s.orders[id].order_side = SELL
                                  /\ s.orders[id].order_type \in ProtectiveTypes
                                  /\ s.orders[id].status = PENDING)
    IN IF ~is_long(s, symbol) \/ i = 0 THEN s
       ELSE RecordClose(
                create_order(CancelAll(s, pending_sell_orders), symbol, MARKET,
                             SELL, s.asset_holdings[symbol], None, None, None,
                             None, None), i)

\* the sum over asset_holdings.items() of quantity * price
RECURSIVE SumValue(_, _, _)
SumValue(holdings, prices, syms) ==
    IF syms = {} THEN R(0)
    ELSE LET sym == CHOOSE x \in syms : TRUE
         IN RAdd(RMul(holdings[sym], prices[sym]),
                 SumValue(holdings, prices, syms \ {sym}))

Held(s) == {sym \in Symbols : ~IsNone(s.asset_holdings[sym])}

\* prices=None: get_valuation called without a price map
NoPrices == <<>>

\* a get_valuation that accepts one argument without the other (C25 depends
\* on the test of line 133)
ValuationErrorUnpaired(s, time, prices) ==
    IF prices # NoPrices /\ \E sym \in Held(s) : IsNone(prices[sym])
    THEN "ValueError: Price not provided"
    ELSE ""

\* the ValueError get_valuation raises, "" when it raises none
ValuationError(s, time, prices) ==
    IF (time = NoTime) # (prices = NoPrices)
    THEN "ValueError: Both time and prices must be provided together"
    ELSE IF prices # NoPrices /\ \E sym \in Held(s) : IsNone(prices[sym])
    THEN "ValueError: Price not provided"
    ELSE ""

\* self.broker.get_price(symbol) for each symbol
LivePrices(s) == [sym \in Symbols |-> get_price(s, sym)]

\* get_valuation(time, prices); time NoTime and prices NoPrices are the
\* defaults
get_valuation(s, time, prices) ==
    IF ValuationError(s, time, prices) # ""
    THEN [err |-> ValuationError(s, time, prices), value |-> None]
    ELSE [err |-> "",
          value |-> RAdd(s.cash,
                         SumValue(s.asset_holdings,
                                  IF prices = NoPrices THEN LivePrices(s)
                                  ELSE prices,
                                  Held(s)))]

\* a portfolio that keeps only the latest valuation record (C32 depends on
\* update appending to the history)
RecordLatestOnly(s1, time, prices) ==
    LET v == get_valuation(s1, time, prices)
    IN IF s1.err # "" THEN s1
       ELSE IF v.err # "" THEN Raise(s1, v.err)
       ELSE [s1 EXCEPT !.valuation_history =
                 <<[timestamp |-> time, valuation |-> v.value,
                    prices |-> prices,
                    asset_holdings |-> s1.asset_holdings]>>]

\* the valuation recorded once the orders are reconciled; s1 is the
\* portfolio after _update_orders
RecordValuation(s1, time, prices) ==
    LET v == get_valuation(s1, time, prices)
    IN IF s1.err # "" THEN s1
       ELSE IF v.err # "" THEN Raise(s1, v.err)
       ELSE [s1 EXCEPT !.valuation_history =
                 Append(@, [timestamp |-> time, valuation |-> v.value,
                            prices |-> prices,
                            asset_holdings |-> s1.asset_holdings])]

\* update, autosave off as in Trader.backtest
update(s, time, prices) == RecordValuation(_update_orders(s), time, prices)

----
(* The inputs the driver and the strategy draw from.  Prices, rates and     *)
(* fractions are dyadic so that the exact arithmetic stays within TLC's    *)
(* 32-bit integers over the runs the bounds allow.                         *)

\* Portfolio(broker, initial_cash)
InitialCash == R(1000)

\* BacktestBroker(transaction_cost, trailing_stop_penalty_relief)
CostRates == {Frac(1, 4)}

PenaltyReliefs == {Frac(3, 4)}

\* seconds between two ticks
TickSeconds == 60

Price(x, y) == [sym \in Symbols |-> IF sym = "X" THEN x ELSE y]

\* the price maps of a tick: X moves, Y stays or is missing from the map
PriceMaps ==
    {Price(R(64), R(128)), Price(R(128), R(128)), Price(R(256), R(128)),
     Price(R(128), None)}

\* open_long's arguments <<cash_percentage, trail_percentage,
\* take_profit_percentage, stop_percentage>>: the four exit recipes, and
\* calls that open_long rejects
OpenLongArgs ==
    {<<Frac(1, 4), Frac(1, 8), None, None>>,
     <<Frac(1, 4), None, Frac(1, 4), Frac(1, 4)>>,
     <<Frac(1, 4), Frac(1, 8), Frac(1, 2), None>>,
     <<Frac(1, 4), None, None, None>>,
     <<R(0), Frac(1, 8), None, None>>,
     <<Frac(1, 4), Frac(1, 8), None, Frac(1, 4)>>,
     <<Frac(1, 4), None, None, Frac(1, 4)>>}

----------------------------------------------------------------------------
(* The state machine *)

Init ==
    /\ orders = <<>>
    /\ current_prices = [sym \in Symbols |-> None]
    /\ current_timestamp = NoTime
    /\ transaction_cost \in CostRates
    /\ trailing_stop_penalty_relief \in PenaltyReliefs
    /\ cash = InitialCash
    /\ asset_holdings = [sym \in Symbols |-> None]
    /\ portfolio_orders = <<>>
    /\ processed_trades = {}
    /\ positions = <<>>
    /\ valuation_history = <<>>
    /\ pc = "tick"
    /\ exchange_orders = <<>>
    /\ file = NoFile
    /\ loaded = NotLoaded
    /\ manager = NoManager
    /\ robot = NotRunning

\* the state an operation leaves, whether it returned or raised; an
\* exception ends Trader.backtest, which catches none
Commit(r, next_pc) ==
    /\ Len(r.orders) <= MaxOrders
    /\ orders' = r.orders
    /\ current_prices' = r.current_prices
    /\ current_timestamp' = r.current_timestamp
    /\ cash' = r.cash
    /\ asset_holdings' = r.asset_holdings
    /\ portfolio_orders' = r.portfolio_orders
    /\ processed_trades' = r.processed_trades
    /\ positions' = r.positions
    /\ valuation_history' = r.valuation_history
    /\ pc' = IF r.err # "" THEN "aborted" ELSE next_pc
    /\ UNCHANGED <<transaction_cost, trailing_stop_penalty_relief,
                   exchange_orders, file, loaded>>
    /\ UNCHANGED <<manager, robot>>

NextTimestamp ==
    IF current_timestamp = NoTime THEN TickSeconds
    ELSE current_timestamp + TickSeconds

\* the driver advances the broker: BacktestBroker.update(timestamp, prices)
Tick(prices) ==
    /\ pc = "tick"
    /\ NextTimestamp <= MaxTicks * TickSeconds
    /\ Commit(broker_update(St, NextTimestamp, prices), "strategy")

\* strategy.evaluate_market calls open_long, close_long or neither
OpenLong(symbol, args) ==
    /\ pc = "strategy"
    /\ Commit(open_long(St, symbol, args[1], args[2], args[3], args[4]), "update")

CloseLong(symbol) ==
    /\ pc = "strategy"
    /\ Commit(close_long(St, symbol), "update")

Hold ==
    /\ pc = "strategy"
    /\ pc' = "update"
    /\ UNCHANGED <<orders, current_prices, current_timestamp, transaction_cost,
                   trailing_stop_penalty_relief, cash, asset_holdings,
                   portfolio_orders, processed_trades, positions,
                   valuation_history, exchange_orders, file, loaded>>
    /\ UNCHANGED <<manager, robot>>

\* Portfolio.update(time, prices) with the tick's timestamp and prices
PortfolioUpdate ==
    /\ pc = "update"
    /\ Commit(update(St, current_timestamp, current_prices), "tick")

Next ==
    \/ \E prices \in PriceMaps : Tick(prices)
    \/ \E symbol \in Symbols, args \in OpenLongArgs : OpenLong(symbol, args)
    \/ \E symbol \in Symbols : CloseLong(symbol)
    \/ Hold
    \/ PortfolioUpdate

Spec == Init /\ [][Next]_vars

----------------------------------------------------------------------------
(* Properties of the portfolio under Trader.backtest's loop (Spec) *)

\* every trade the broker has created, in the order of the order table
RECURSIVE AllTrades(_)
AllTrades(os) == IF os = <<>> THEN <<>> ELSE Head(os).trades \o AllTrades(Tail(os))

\* whether every trade of the order has been applied by _process_order
Processed(order) ==
    /\ order.trades # <<>>
    /\ \A k \in DOMAIN order.trades : order.trades[k].id \in processed_trades

\* the order has filled and the portfolio has applied the fill
FillApplied(id) == orders[id].status = FILLED /\ Processed(orders[id])

\* sum of BUY quantities minus sum of SELL quantities of symbol over the
\* processed trades among ts
RECURSIVE NetQuantity(_, _)
NetQuantity(ts, symbol) ==
    IF ts = <<>> THEN R(0)
    ELSE IF Head(ts).id \in processed_trades /\ Head(ts).symbol = symbol
    THEN RAdd(IF Head(ts).order_side = BUY THEN Head(ts).quantity
              ELSE RNeg(Head(ts).quantity),
              NetQuantity(Tail(ts), symbol))
    ELSE NetQuantity(Tail(ts), symbol)

\* what a trade moves into cash: -(price * qty + costs) for a BUY,
\* +(price * qty - costs) for a SELL
CashFlow(trade) ==
    IF trade.order_side = BUY
    THEN RNeg(RAdd(RMul(trade.price, trade.quantity), trade.transaction_costs))
    ELSE RSub(RMul(trade.price, trade.quantity), trade.transaction_costs)

RECURSIVE NetCash(_)
NetCash(ts) ==
    IF ts = <<>> THEN R(0)
    ELSE IF Head(ts).id \in processed_trades
    THEN RAdd(CashFlow(Head(ts)), NetCash(Tail(ts)))
    ELSE NetCash(Tail(ts))

\* the portfolio after update is called once more with the same arguments
UpdatedAgain(s1) ==
    update([s1 EXCEPT !.err = ""], current_timestamp, current_prices)

\* C1: reconciliation applies each broker trade exactly once.  In every
\* reachable state, a trade whose id is already in processed_trades changes
\* neither cash nor asset_holdings when _process_order meets it again, and
\* Portfolio.update called twice in a row, the broker creating no trade in
\* between, leaves cash and asset_holdings after the second call equal to
\* those after the first.
C1_UpdateIdempotent ==
    /\ \A i \in DOMAIN portfolio_orders :
          \A k \in DOMAIN orders[portfolio_orders[i]].trades :
             LET order == orders[portfolio_orders[i]]
                 r == ProcessTrade(St, order, order.trades[k])
             IN order.trades[k].id \in processed_trades
                   => r.cash = cash /\ r.asset_holdings = asset_holdings
    /\ LET s1 == update(St, current_timestamp, current_prices)
           s2 == UpdatedAgain(s1)
       IN s2.cash = s1.cash /\ s2.asset_holdings = s1.asset_holdings

\* the portfolio has applied the BUY trade of a position and the broker has
\* since filled the position's protective order: the next update applies
\* that fill and changes cash, the update after it changes nothing
C1_FillAppliedOnce ==
    /\ \E id \in DOMAIN orders : orders[id].order_side = BUY /\ FillApplied(id)
    /\ \E id \in DOMAIN orders :
          /\ orders[id].order_type \in ProtectiveTypes
          /\ orders[id].status = FILLED
          /\ ~Processed(orders[id])
    /\ LET s1 == update(St, current_timestamp, current_prices)
       IN s1.cash # cash /\ UpdatedAgain(s1).cash = s1.cash

\* C2: in every reachable state asset_holdings[s] is the sum of the BUY
\* quantities minus the sum of the SELL quantities of s over exactly the
\* trades whose ids are in processed_trades, and cash is the initial cash
\* minus (price * qty + costs) of every processed BUY trade plus
\* (price * qty - costs) of every processed SELL trade.
C2_HoldingsAndCashFromProcessedTrades ==
    /\ \A symbol \in Symbols :
          Holding(St, symbol) = NetQuantity(AllTrades(orders), symbol)
    /\ cash = RAdd(InitialCash, NetCash(AllTrades(orders)))

\* a BUY and a SELL trade have been applied
C2_BoughtAndSold ==
    /\ \E i \in DOMAIN orders :
          orders[i].order_side = BUY /\ FillApplied(i)
    /\ \E j \in DOMAIN orders :
          orders[j].order_side = SELL /\ FillApplied(j)
    /\ cash # InitialCash

\* a and b are the take profit / stop loss pair (either way round) among a
\* position's orders
Siblings(position, a, b) ==
    /\ \E m, n \in DOMAIN position.order_ids :
          position.order_ids[m] = a /\ position.order_ids[n] = b
    /\ orders[a].symbol = orders[b].symbol
    /\ \/ orders[a].order_type = TAKE_PROFIT /\ orders[b].order_type = STOP_LOSS
       \/ orders[a].order_type = STOP_LOSS /\ orders[b].order_type = TAKE_PROFIT

\* C3: one cancels the other.  Whenever one order of a position's take
\* profit / stop loss pair has filled and the portfolio has applied the fill,
\* the other order of the pair is CANCELLED at the broker (every handler that
\* reconciles is one step, so the cancellation happens within the pass that
\* applies the fill); and a CANCELLED take profit or stop loss order is never
\* changed by a later step, so it never fills.
C3_OneCancelsOther ==
    /\ [](\A p \in DOMAIN positions : \A a, b \in DOMAIN orders :
             Siblings(positions[p], a, b) /\ FillApplied(a)
                => orders[b].status = CANCELLED)
    /\ [][\A id \in DOMAIN orders :
             orders[id].order_type \in {TAKE_PROFIT, STOP_LOSS}
                /\ orders[id].status = CANCELLED
                => orders'[id] = orders[id]]_vars

\* a take profit order filled at the broker, the portfolio applied the fill
\* and cancelled the stop loss order, which it still tracks
C3_TakeProfitCancelsStopLoss ==
    \E p \in DOMAIN positions : \E a, b \in DOMAIN orders :
       /\ Siblings(positions[p], a, b)
       /\ orders[a].order_type = TAKE_PROFIT
       /\ FillApplied(a)
       /\ orders[b].status = CANCELLED
       /\ orders[b].trades = <<>>
       /\ \E i \in DOMAIN portfolio_orders : portfolio_orders[i] = b
       /\ ~positions[p].is_open

\* close_long has sold, at the price p, the quantity q that open_long bought
\* at p; r1 is the state after open_long, r2 the state after close_long
SoldWhatWasBought(s0, r1, r2, symbol) ==
    LET bought == r1.orders[Len(s0.orders) + 1]
        sold == r2.orders[Len(r2.orders)]
    IN /\ r2.err = ""
       /\ Len(r2.orders) > Len(r1.orders)
       /\ bought.trades[1].price = s0.current_prices[symbol]
       /\ sold.order_type = MARKET /\ sold.order_side = SELL
       /\ sold.symbol = symbol
       /\ sold.quantity = bought.quantity
       /\ sold.trades[1].price = s0.current_prices[symbol]

\* the round trip leaves the cash of s0 less 2 * p * q * cost_rate and the
\* holding of s0; when nothing of the symbol was held before, close_long does
\* sell the quantity bought
Conserved(s0, r1, r2, symbol) ==
    LET q == r1.orders[Len(s0.orders) + 1].quantity
        p == s0.current_prices[symbol]
    IN /\ Holding(s0, symbol) = R(0) => SoldWhatWasBought(s0, r1, r2, symbol)
       /\ SoldWhatWasBought(s0, r1, r2, symbol) =>
             /\ r2.cash = RSub(s0.cash,
                               RMul(R(2), RMul(RMul(p, q), transaction_cost)))
             /\ Holding(r2, symbol) = Holding(s0, symbol)

\* close_long at the tick after open_long, prices unchanged; u is the state
\* after the Portfolio.update that follows open_long
ConservedNextTick(s0, r1, u, symbol) ==
    u.err = "" =>
       Conserved(s0, r1,
                 close_long(broker_update(u, u.current_timestamp + TickSeconds,
                                          u.current_prices), symbol),
                 symbol)

\* close_long in the same tick as open_long, and close_long at the next tick
\* with Portfolio.update and a Broker.update at unchanged prices in between
RoundTripConserves(s0, r1, symbol) ==
    (r1.err = "" /\ Len(r1.orders) > Len(s0.orders)) =>
       /\ Conserved(s0, r1, close_long(r1, symbol), symbol)
       /\ ConservedNextTick(s0, r1,
                            update(r1, r1.current_timestamp, r1.current_prices),
                            symbol)

\* every fill at the broker has been applied by the portfolio
AllFillsApplied ==
    \A id \in DOMAIN orders :
       \A k \in DOMAIN orders[id].trades :
          orders[id].trades[k].id \in processed_trades

\* C15: whenever the strategy is called and no other fill awaits
\* reconciliation, an open_long that buys q at the price p followed by a
\* close_long at the same price p (which sells the same q at p) leaves cash at
\* its value before the BUY minus exactly 2 * p * q * cost_rate, and the
\* holding of the symbol at its value before the BUY.
C15_RoundTripCostsOnly ==
    (pc = "strategy" /\ AllFillsApplied) =>
       \A symbol \in Symbols, args \in OpenLongArgs :
          RoundTripConserves(St, open_long(St, symbol, args[1], args[2], args[3],
                                           args[4]), symbol)

\* X was bought at the market and sold at the market at the same price and
\* in the same quantity, nothing else was traded, X is no longer held and
\* the cash is the initial cash less twice the cost of one leg
C15_BoughtAndSoldAtSamePrice ==
    \E b \in DOMAIN orders, s \in DOMAIN orders :
       /\ orders[b].order_type = MARKET /\ orders[b].order_side = BUY
       /\ orders[s].order_type = MARKET /\ orders[s].order_side = SELL
       /\ Processed(orders[b]) /\ Processed(orders[s])
       /\ orders[s].timestamp > orders[b].timestamp
       /\ orders[s].trades[1].price = orders[b].trades[1].price
       /\ orders[s].trades[1].quantity = orders[b].trades[1].quantity
       /\ Cardinality(processed_trades) = 2
       /\ asset_holdings[orders[b].symbol] = R(0)
       /\ RLt(R(0), transaction_cost)
       /\ cash = RSub(InitialCash,
                      RMul(R(2), orders[b].trades[1].transaction_costs))

\* C19: over every interleaving of broker ticks with open_long, close_long
\* and update, the portfolio never sells more of a symbol than it holds:
\* asset_holdings[s] is never negative and cash is never negative.
C19_NeverOversold ==
    /\ \A sym \in Symbols :
          ~IsNone(asset_holdings[sym]) => RLe(R(0), asset_holdings[sym])
    /\ RLe(R(0), cash)

\* cash_percentage values around the interval (0, 1]
PercentageValues == {Frac(-1, 4), R(0), R(1), Frac(5, 4)}

\* the arguments are among those the claim says open_long must reject
MustReject(cash_percentage, trail_percentage, take_profit_percentage, stop_percentage) ==
    \/ ~(RLt(R(0), cash_percentage) /\ RLe(cash_percentage, R(1)))
    \/ ~IsNone(trail_percentage) /\ ~IsNone(stop_percentage)
    \/ ~IsNone(stop_percentage) /\ IsNone(take_profit_percentage)

OpenLongErrors ==
    {"ValueError: Percentage must be between 0 and 1",
     "ValueError: Trail percentage cannot be used with stop loss",
     "ValueError: Stop percentage always requires a take profit percentage"}

\* r is s but for the exception: no order at the broker, no position, cash
\* and holdings as they were
NothingChanged(s, r) == [r EXCEPT !.err = ""] = s

\* when the arguments must be rejected, open_long ends with a validation
\* error and changes nothing; r is the state after the call
RejectsUnchanged(s, r, must_reject) ==
    must_reject => r.err \in OpenLongErrors /\ NothingChanged(s, r)

\* C20: whenever the strategy is called, open_long fails with a validation error and
\* changes nothing (no order at the broker, no Position, cash and holdings
\* unchanged) when cash_percentage is not in (0, 1], when trail_percentage
\* is combined with stop_percentage, or when stop_percentage is given without
\* take_profit_percentage.
C20_OpenLongValidates ==
    pc = "strategy" =>
       \A symbol \in Symbols, cash_percentage \in PercentageValues :
          \A trail_percentage \in {None, Frac(1, 8)},
             take_profit_percentage \in {None, Frac(1, 4)},
             stop_percentage \in {None, Frac(1, 4)} :
             RejectsUnchanged(St,
                            open_long(St, symbol, cash_percentage,
                                      trail_percentage, take_profit_percentage,
                                      stop_percentage),
                            MustReject(cash_percentage, trail_percentage,
                                       take_profit_percentage, stop_percentage))

\* on the first tick, with both symbols priced, the strategy's open_long was
\* rejected: the run is over and nothing was ordered, opened or spent
C20_RejectedOpenLong ==
    /\ pc = "aborted"
    /\ \A sym \in Symbols : ~IsNone(current_prices[sym])
    /\ orders = <<>> /\ portfolio_orders = <<>> /\ positions = <<>>
    /\ cash = InitialCash
    /\ \A sym \in Symbols : IsNone(asset_holdings[sym])
    /\ valuation_history = <<>>

\* the symbol is LONG: a positive holding
AlreadyLong(symbol) == RLt(R(0), Holding(St, symbol))

\* C21: whenever the strategy is called, open_long on a symbol that is
\* already LONG creates no order at the broker, adds no Position and no entry
\* to Portfolio.orders and leaves cash, asset_holdings and the existing
\* protective orders unchanged; with arguments that pass the validation it
\* returns without an exception.
C21_OpenLongWhenLongIsNoOp ==
    pc = "strategy" =>
       \A symbol \in Symbols, args \in OpenLongArgs :
          AlreadyLong(symbol) =>
             /\ NothingChanged(St, open_long(St, symbol, args[1], args[2],
                                             args[3], args[4]))
             /\ ~MustReject(args[1], args[2], args[3], args[4]) =>
                   open_long(St, symbol, args[1], args[2], args[3],
                             args[4]) = St

\* the strategy is called while X is LONG under a PENDING protective order,
\* and a second open_long on X returns the state it was called in
C21_SecondOpenLongIgnored ==
    /\ pc = "strategy"
    /\ AlreadyLong("X")
    /\ \E i \in DOMAIN positions : positions[i].symbol = "X" /\ positions[i].is_open
    /\ \E k \in DOMAIN portfolio_orders :
          LET order == orders[portfolio_orders[k]]
          IN order.symbol = "X" /\ order.order_type \in ProtectiveTypes
             /\ order.status = PENDING
    /\ open_long(St, "X", Frac(1, 4), Frac(1, 8), None, None) = St

\* the broker's orders of s, by id, that protect the symbol and are PENDING
PendingProtection(s, symbol) ==
    {id \in DOMAIN s.orders :
        /\ s.orders[id].symbol = symbol
        /\ s.orders[id].order_side = SELL
        /\ s.orders[id].order_type \in ProtectiveTypes
        /\ s.orders[id].status = PENDING}

\* close_long took s to r by one MARKET SELL for the whole holding of s, filled
\* by one trade, the only order it created for the symbol, and the open
\* position i of s is closed at that trade's price
SoldWholeHolding(s, r, symbol, i) ==
    /\ Len(r.orders) > Len(s.orders)
    /\ \A id \in (Len(s.orders) + 2)..Len(r.orders) : r.orders[id].symbol # symbol
    /\ LET sell == r.orders[Len(s.orders) + 1]
       IN /\ sell.symbol = symbol
          /\ sell.order_type = MARKET /\ sell.order_side = SELL
          /\ sell.quantity = s.asset_holdings[symbol]
          /\ sell.status = FILLED /\ Len(sell.trades) = 1
          /\ i # 0
          /\ ~r.positions[i].is_open
          /\ r.positions[i].close_price = sell.trades[1].price

\* what close_long owes a symbol that is LONG; r is the state after the call
ClosedOut(s, r, symbol) ==
    /\ r.err = ""
    /\ \A id \in PendingProtection(s, symbol) : r.orders[id].status = CANCELLED
    /\ SoldWholeHolding(s, r, symbol, FirstOpenLong(s.positions, symbol, 1))
    /\ Holding(r, symbol) = R(0)
    /\ PendingProtection(r, symbol) = {}

\* the broker has a price to sell the symbol at
Priced(symbol) == RLt(R(0), get_price(St, symbol))

\* C22: whenever the strategy is called, close_long(symbol) changes nothing
\* when the symbol is not LONG; when it is LONG (and the broker has a price
\* for it), it cancels every PENDING protective SELL order of the symbol at
\* the broker, submits one MARKET SELL for the full holding, and after its
\* reconciliation the holding is 0, the Position is closed with close_price
\* equal to the sell trade's price and no protective order of the symbol is
\* PENDING.
C22_CloseLongClosesOut ==
    pc = "strategy" =>
       \A symbol \in Symbols :
          /\ ~AlreadyLong(symbol) => close_long(St, symbol) = St
          /\ (AlreadyLong(symbol) /\ Priced(symbol)) =>
                ClosedOut(St, close_long(St, symbol), symbol)

\* the PENDING SELL orders of one type that the broker holds for a position
PendingOfType(s, position, order_type) ==
    {id \in DOMAIN s.orders :
        /\ s.orders[id].symbol = position.symbol
        /\ s.orders[id].order_side = SELL
        /\ s.orders[id].order_type = order_type
        /\ s.orders[id].status = PENDING}

\* exactly one PENDING order of the type protects the position: it is for the
\* position's quantity and it is recorded in Portfolio.orders
OneActive(s, position, order_type) ==
    /\ Cardinality(PendingOfType(s, position, order_type)) = 1
    /\ \A id \in PendingOfType(s, position, order_type) :
          /\ s.orders[id].quantity = position.quantity
          /\ \E k \in DOMAIN s.portfolio_orders : s.portfolio_orders[k] = id

\* every open LONG position whose fill is registered has the protection it
\* was configured with
Protected(s) ==
    \A i \in DOMAIN s.positions :
       LET position == s.positions[i]
       IN (position.is_open /\ position.side = LONG /\ ~IsNone(position.quantity)) =>
             IF ~IsNone(position.trail_percentage)
             THEN OneActive(s, position, TRAILING_STOP)
             ELSE (~IsNone(position.take_profit_percentage)
                     /\ ~IsNone(position.stop_percentage)) =>
                      /\ OneActive(s, position, TAKE_PROFIT)
                      /\ OneActive(s, position, STOP_LOSS)

\* r is the state an operation returned in, or the operation raised
ReturnsProtected(r) == r.err = "" => Protected(r)

\* C23: after every open_long or update returns, each open LONG Position
\* whose fill is registered has its configured protection active at the
\* broker: exactly one PENDING TRAILING_STOP SELL order if it was configured
\* with trail_percentage, or exactly one PENDING TAKE_PROFIT and one PENDING
\* STOP_LOSS SELL order if it was configured with the pair, each for the
\* Position's quantity and each recorded in Portfolio.orders.
C23_ProtectionActive ==
    /\ pc = "strategy" =>
          \A symbol \in Symbols, args \in OpenLongArgs :
             ReturnsProtected(open_long(St, symbol, args[1], args[2], args[3],
                                        args[4]))
    /\ pc = "update" =>
          ReturnsProtected(update(St, current_timestamp, current_prices))

\* the ids in the portfolio's books po of the PENDING TRAILING_STOP SELL
\* orders among the broker's orders os that protect the symbol
ActiveTrails(os, po, symbol) ==
    {id \in DOMAIN os :
        /\ \E k \in DOMAIN po : po[k] = id
        /\ os[id].symbol = symbol
        /\ os[id].order_type = TRAILING_STOP
        /\ os[id].order_side = SELL
        /\ os[id].status = PENDING}

\* position i is an open LONG position before and after the step
StaysOpen(i) ==
    /\ positions[i].is_open /\ positions[i].side = LONG
    /\ i \in DOMAIN positions' /\ positions'[i].is_open

\* C24: over every step of the run (a broker tick, open_long, close_long or
\* update), the active trailing stop of a Position that stays open is never
\* loosened: an order that stays active keeps or raises its stop, and when
\* reconciliation has replaced it (cancelled it at the broker and submitted
\* another) the new order's stop is strictly higher than the cancelled
\* order's stop.
C24_PortfolioRatchet ==
    [][\A i \in DOMAIN positions :
          StaysOpen(i) =>
             \A a \in ActiveTrails(orders, portfolio_orders, positions[i].symbol),
                b \in ActiveTrails(orders', portfolio_orders', positions[i].symbol) :
                IF a = b
                THEN RLe(orders[a].stop, orders'[b].stop)
                ELSE /\ orders'[a].status = CANCELLED
                     /\ RLt(orders[a].stop, orders'[b].stop)]_vars

\* an open LONG position whose trailing stop reconciliation has replaced: the
\* cancelled order and, with a higher stop, the PENDING one that took its
\* place
C24_TrailReplacedHigher ==
    \E i \in DOMAIN positions :
       /\ positions[i].is_open /\ positions[i].side = LONG
       /\ \E a \in DOMAIN orders :
             /\ orders[a].symbol = positions[i].symbol
             /\ orders[a].order_type = TRAILING_STOP
             /\ orders[a].status = CANCELLED
             /\ \E k \in DOMAIN positions[i].order_ids : positions[i].order_ids[k] = a
             /\ \E b \in ActiveTrails(orders, portfolio_orders, positions[i].symbol) :
                   /\ b > a
                   /\ RLt(orders[a].stop, orders[b].stop)

\* the price maps get_valuation is called with: none, the tick's maps, and a
\* map without any symbol
ValuationPrices ==
    PriceMaps \cup {NoPrices, [sym \in Symbols |-> None]}

\* the map lacks the price of a symbol in asset_holdings
LacksHeldPrice(prices) ==
    \E sym \in Symbols : ~IsNone(asset_holdings[sym]) /\ IsNone(prices[sym])

ValuationErrors ==
    {"ValueError: Both time and prices must be provided together",
     "ValueError: Price not provided"}

\* C25: in every state, get_valuation fails with a ValueError when exactly
\* one of time and prices is supplied, and when prices is supplied (with a
\* time) but lacks the price of a symbol in asset_holdings; the call assigns
\* nothing, and the update that called it ends with cash, holdings, orders,
\* positions and the valuation history as they were at the call.
C25_ValuationValidates ==
    \A time \in {NoTime, TickSeconds}, prices \in ValuationPrices :
       /\ ((time = NoTime) # (prices = NoPrices)) =>
             get_valuation(St, time, prices).err
                = "ValueError: Both time and prices must be provided together"
       /\ (time # NoTime /\ prices # NoPrices /\ LacksHeldPrice(prices)) =>
             /\ get_valuation(St, time, prices).err
                   = "ValueError: Price not provided"
             /\ RecordValuation(St, time, prices).err \in ValuationErrors
             /\ NothingChanged(St, RecordValuation(St, time, prices))

\* the run has ended at a tick whose price map has no price for a symbol in
\* asset_holdings: get_valuation raises for the tick's arguments, no order
\* was created at the tick and no valuation was recorded for it
C25_UpdateRejectedForMissingPrice ==
    /\ pc = "aborted"
    /\ LacksHeldPrice(current_prices)
    /\ get_valuation(St, current_timestamp, current_prices).err
          = "ValueError: Price not provided"
    /\ get_valuation(St, current_timestamp, NoPrices).err
          = "ValueError: Both time and prices must be provided together"
    /\ \A k \in DOMAIN valuation_history :
          valuation_history[k].timestamp < current_timestamp
    /\ \A id \in DOMAIN orders : orders[id].timestamp < current_timestamp

\* C26: in every state, get_valuation(time, prices) called for the time and
\* the prices of an earlier update returns the valuation that update
\* recorded, which is the cash at that time plus the sum over the holdings at
\* that time of holding * price; and get_valuation() without arguments returns
\* the current cash plus, for each held symbol, holding * the broker's live
\* price.
C26_ValuationAsOfTime ==
    /\ \A k \in DOMAIN valuation_history :
          LET e == valuation_history[k]
              v == get_valuation(St, e.timestamp, e.prices)
          IN v.err = "" => v.value = e.valuation
    /\ get_valuation(St, NoTime, NoPrices).err = ""
    /\ get_valuation(St, NoTime, NoPrices).value
          = RAdd(cash,
                 SumValue([sym \in Symbols |-> Holding(St, sym)],
                          [sym \in Symbols |-> IF IsNone(current_prices[sym])
                                               THEN R(0)
                                               ELSE current_prices[sym]],
                          Symbols))

\* cash + the sum over the symbols of asset_holdings[s] x prices[s], a symbol
\* that was never traded counting for nothing
ValueAt(c, holdings, prices) ==
    RAdd(c, SumValue([sym \in Symbols |-> IF IsNone(holdings[sym]) THEN R(0)
                                          ELSE holdings[sym]],
                     [sym \in Symbols |-> IF IsNone(prices[sym]) THEN R(0)
                                          ELSE prices[sym]],
                     Symbols))

\* the step is a Portfolio.update that returns
IsSuccessfulUpdate == pc = "update" /\ pc' = "tick"

\* C32: every successful Portfolio.update(t, prices) appends exactly one
\* record of t, the valuation, the prices and the holdings to
\* valuation_history, the valuation being cash + sum of asset_holdings[s] x
\* prices[s] as they stand after the update's reconciliation; no step
\* modifies or removes an earlier record, so a recorded holdings snapshot is
\* not altered by later trades.
C32_ValuationRecorded ==
    [][/\ Len(valuation_history') >= Len(valuation_history)
       /\ SubSeq(valuation_history', 1, Len(valuation_history))
             = valuation_history
       /\ IF IsSuccessfulUpdate
          THEN /\ Len(valuation_history') = Len(valuation_history) + 1
               /\ LET e == valuation_history'[Len(valuation_history')]
                  IN /\ e.timestamp = current_timestamp
                     /\ e.prices = current_prices
                     /\ e.asset_holdings = asset_holdings'
                     /\ e.valuation = ValueAt(cash', asset_holdings', current_prices)
          ELSE valuation_history' = valuation_history]_vars

\* two updates have recorded different holdings: the earlier record still
\* shows the holdings of its own time after the trades that followed it
C32_EarlierSnapshotKept ==
    /\ Len(valuation_history) >= 2
    /\ valuation_history[1].asset_holdings # asset_holdings
    /\ valuation_history[Len(valuation_history)].asset_holdings = asset_holdings
    /\ RLt(R(0), valuation_history[1].asset_holdings["X"])
    /\ pc = "tick"

\* every Position was opened with trail_percentage only
TrailOnly(s) ==
    \A k \in DOMAIN s.positions :
       /\ ~IsNone(s.positions[k].trail_percentage)
       /\ IsNone(s.positions[k].take_profit_percentage)
       /\ IsNone(s.positions[k].stop_percentage)

\* the tick carries a positive price for every symbol of asset_holdings
HeldArePriced(s) ==
    \A sym \in Held(s) :
       /\ ~IsNone(s.current_prices[sym])
       /\ RLt(R(0), s.current_prices[sym])

\* C36: with Positions opened with trail_percentage only, Portfolio.update
\* completes without raising on every tick that carries a positive price for
\* the held symbols, also when the price is above a Position's open_price
\* while its trailing stop is active.
C36_TrailOnlyUpdateCompletes ==
    (pc = "update" /\ TrailOnly(St) /\ HeldArePriced(St)) =>
       update(St, current_timestamp, current_prices).err = ""

\* the indices of the open Positions for the symbol in s
OpenFor(s, symbol) ==
    {k \in DOMAIN s.positions :
        s.positions[k].symbol = symbol /\ s.positions[k].is_open}

\* the broker ids of the PENDING protective sell orders for the symbol
ActiveProtection(s, symbol) ==
    {id \in DOMAIN s.orders :
        /\ id \in Range(s.portfolio_orders)
        /\ s.orders[id].symbol = symbol
        /\ s.orders[id].order_side = SELL
        /\ s.orders[id].order_type \in ProtectiveTypes
        /\ s.orders[id].status = PENDING}

\* C38: after every reconciliation, for every symbol s, asset_holdings[s] > 0
\* exactly when there is an open Position for s, and then asset_holdings[s] is
\* that Position's quantity and the quantity of each of its active protective
\* orders.  The states after Portfolio.update are those with pc = "tick".
C38_HoldingsMatchPositions ==
    (pc = "tick" /\ valuation_history # <<>>) =>
       \A symbol \in Symbols :
          /\ RLt(R(0), Holding(St, symbol)) <=> OpenFor(St, symbol) # {}
          /\ \A k \in OpenFor(St, symbol) :
                /\ positions[k].quantity = Holding(St, symbol)
                /\ \A id \in ActiveProtection(St, symbol) :
                      orders[id].quantity = Holding(St, symbol)

\* C40: if close_long fails because the broker rejects the closing MARKET
\* SELL (the symbol has no strictly positive current price), the Portfolio is
\* left as it was before the call: the protective orders are still PENDING at
\* the broker and in Portfolio.orders, and cash, holdings and positions are
\* unchanged.
C40_FailedCloseLongChangesNothing ==
    pc = "strategy" =>
       \A symbol \in Symbols :
          (AlreadyLong(symbol) /\ ~Priced(symbol)
             /\ close_long(St, symbol).err # "") =>
                NothingChanged(St, close_long(St, symbol))

----------------------------------------------------------------------------
(* Trader.backtest's loop over decimal prices: a long on X opened from a   *)
(* cash of 1000 by a strategy that opens one position                      *)

\* BacktestBroker(transaction_cost): 0.004 and 0.005
ScenarioCostRates == {Frac(1, 250), Frac(1, 200)}

\* the prices of X: 98, 100, 108.9 and 110
ScenarioPriceMaps ==
    {Price(R(98), None), Price(R(100), None), Price(Frac(1089, 10), None),
     Price(R(110), None)}

\* open_long's arguments: a trail of 0.01 alone on a quarter or a half of the
\* cash, and no exit at all
ScenarioArgs ==
    {<<Frac(1, 4), Frac(1, 100), None, None>>,
     <<Frac(1, 2), Frac(1, 100), None, None>>,
     <<Frac(1, 4), None, None, None>>}

InitScenario ==
    /\ orders = <<>>
    /\ current_prices = [sym \in Symbols |-> None]
    /\ current_timestamp = NoTime
    /\ transaction_cost \in ScenarioCostRates
    /\ trailing_stop_penalty_relief \in PenaltyReliefs
    /\ cash = InitialCash
    /\ asset_holdings = [sym \in Symbols |-> None]
    /\ portfolio_orders = <<>>
    /\ processed_trades = {}
    /\ positions = <<>>
    /\ valuation_history = <<>>
    /\ pc = "tick"
    /\ exchange_orders = <<>>
    /\ file = NoFile
    /\ loaded = NotLoaded
    /\ manager = NoManager
    /\ robot = NotRunning

\* the strategy opens its one position, when X is at 100
OpenFirstLong(args) ==
    /\ positions = <<>>
    /\ current_prices["X"] = R(100)
    /\ OpenLong("X", args)

NextScenario ==
    \/ \E prices \in ScenarioPriceMaps : Tick(prices)
    \/ \E args \in ScenarioArgs : OpenFirstLong(args)
    \/ CloseLong("X")
    \/ Hold
    \/ PortfolioUpdate

SpecScenario == InitScenario /\ [][NextScenario]_vars

\* |x - v| <= tol
Approx(x, v, tol) == RLe(RSub(x, v), tol) /\ RLe(RSub(v, x), tol)

\* open_long("X", 0.25, trail_percentage=0.01) has just returned, having been
\* called with a cash of 1000 and no order yet, X at 100, at the given cost
\* rate
OpenedAt100(cost_rate) ==
    /\ pc = "update"
    /\ transaction_cost = cost_rate
    /\ current_prices["X"] = R(100)
    /\ Len(positions) = 1
    /\ positions[1].amount_invested = R(250)
    /\ positions[1].trail_percentage = Frac(1, 100)
    /\ IsNone(positions[1].take_profit_percentage)
    /\ Len(orders) >= 1
    /\ orders[1].timestamp = current_timestamp

\* the orders of the given type, side and status that the portfolio holds
HeldOrders(order_type, order_side, status) ==
    {id \in DOMAIN orders :
        /\ \E k \in DOMAIN portfolio_orders : portfolio_orders[k] = id
        /\ orders[id].order_type = order_type
        /\ orders[id].order_side = order_side
        /\ orders[id].status = status}

\* what open_long leaves but for the quantity: one FILLED MARKET BUY, cash
\* about 750.0, one PENDING TRAILING_STOP SELL with its stop at about 99.0,
\* and no other order
OpenedLongWithTrail ==
    /\ Cardinality(HeldOrders(MARKET, BUY, FILLED)) = 1
    /\ Approx(cash, R(750), Frac(1, 10))
    /\ Cardinality(HeldOrders(TRAILING_STOP, SELL, PENDING)) = 1
    /\ \A id \in HeldOrders(TRAILING_STOP, SELL, PENDING) :
          Approx(orders[id].stop, R(99), Frac(1, 10))
    /\ Len(orders) = 2 /\ Len(portfolio_orders) = 2

\* the quantity of the MARKET BUY is about q, to the fourth decimal
BoughtAbout(q) ==
    \A id \in HeldOrders(MARKET, BUY, FILLED) :
       Approx(orders[id].quantity, q, Frac(1, 10000))

\* C12 as stated: with initial cash 1000, cost_rate 0.004 and X at 100,
\* open_long(X, 0.25, trail_percentage=0.01) yields one FILLED MARKET BUY of
\* quantity 2.4875 (to four decimals), cash about 750.0 and, once reconciled,
\* exactly one PENDING TRAILING_STOP SELL with stop about 99.0.
C12_OpenLongScenarioAsStated ==
    OpenedAt100(Frac(1, 250)) => OpenedLongWithTrail /\ BoughtAbout(Frac(24875, 10000))

\* C12, amended: with initial cash 1000, cost_rate 0.004 and X at 100,
\* open_long(X, 0.25, trail_percentage=0.01) yields one FILLED MARKET BUY of
\* quantity 2.49 = 250 * 0.996 / 100, cash about 750.0 and, once reconciled,
\* exactly one PENDING TRAILING_STOP SELL with stop about 99.0.  (2.4875 is the
\* quantity at a cost_rate of 0.005.)
C12_OpenLongScenario ==
    /\ OpenedAt100(Frac(1, 250)) =>
          /\ OpenedLongWithTrail
          /\ BoughtAbout(Frac(249, 100))
          /\ cash = Frac(187501, 250)
    /\ OpenedAt100(Frac(1, 200)) =>
          OpenedLongWithTrail /\ BoughtAbout(Frac(24875, 10000))

\* the long of the scenario has just been opened at a cost rate of 0.004 and
\* its trailing stop is in place
C12_LongOpened ==
    /\ OpenedAt100(Frac(1, 250))
    /\ HeldOrders(TRAILING_STOP, SELL, PENDING) # {}
    /\ processed_trades # {}

\* the one position is a long on X opened at 100 with a trail of 0.01 and
\* nothing else
TrailOnlyLongAt100 ==
    /\ Len(positions) = 1
    /\ positions[1].trail_percentage = Frac(1, 100)
    /\ IsNone(positions[1].take_profit_percentage)
    /\ IsNone(positions[1].stop_percentage)
    /\ orders[1].trades[1].price = R(100)

\* the trailing stop orders of the given status
TrailingStops(status) ==
    {id \in DOMAIN orders :
        orders[id].order_type = TRAILING_STOP /\ orders[id].status = status}

\* a lies between b and c, whichever of the two is larger
Between(a, b, c) == (RLe(b, a) /\ RLe(a, c)) \/ (RLe(c, a) /\ RLe(a, b))

\* C13: for a long opened at 100 with trail_percentage=0.01 only, the tick at
\* 110 (Broker.update then Portfolio.update) leaves a PENDING TRAILING_STOP
\* with its stop at about 108.9 and Portfolio.update completes; at the next
\* tick, 108.9, Broker.update fills that order at a price between the stop
\* level and the tick price.
C13_TrailRatchetsThenFills ==
    /\ (/\ TrailOnlyLongAt100
        /\ positions[1].is_open
        /\ current_prices["X"] = R(110)
        /\ pc = "update") =>
          /\ \E id \in TrailingStops(PENDING) :
                Approx(orders[id].stop, Frac(1089, 10), Frac(1, 10))
          /\ update(St, current_timestamp, current_prices).err = ""
    /\ TrailOnlyLongAt100 => pc # "aborted"
    /\ (/\ TrailOnlyLongAt100
        /\ positions[1].is_open
        /\ current_prices["X"] = Frac(1089, 10)
        /\ pc = "strategy"
        /\ valuation_history # <<>>
        /\ valuation_history[Len(valuation_history)].prices["X"] = R(110)) =>
          \E id \in TrailingStops(FILLED) :
             /\ Len(orders[id].trades) = 1
             /\ Between(orders[id].trades[1].price, orders[id].stop,
                        current_prices["X"])

----------------------------------------------------------------------------
(* A Portfolio with autosave on: update ends with save, written to the     *)
(* file entry by entry; the process may stop while save is writing, and a  *)
(* new process starts from Portfolio.from_file                             *)

\* ticks of the run with autosave on
MaxPersistTicks == 2

\* the prices of X
PersistPriceMaps == {Price(R(64), None), Price(R(128), None)}

\* open_long's arguments: a trailing stop, and a take profit with a stop loss
PersistArgs ==
    {<<Frac(1, 4), Frac(1, 8), None, None>>,
     <<Frac(1, 4), None, Frac(1, 4), Frac(1, 4)>>}

PersistTick(prices) ==
    /\ NextTimestamp <= MaxPersistTicks * TickSeconds
    /\ Tick(prices)

\* Portfolio.update up to the valuation record; autosave is on, save follows
UpdateThenSave ==
    /\ pc = "update"
    /\ Commit(update(St, current_timestamp, current_prices), "save")

\* save, line 170: open(filename, 'w') truncates the file
SaveOpen ==
    /\ pc = "save"
    /\ file' = OpenForWriting
    /\ pc' = "write"
    /\ UNCHANGED <<orders, current_prices, current_timestamp, transaction_cost,
                   trailing_stop_penalty_relief, cash, asset_holdings,
                   portfolio_orders, processed_trades, positions,
                   valuation_history, exchange_orders, loaded>>
    /\ UNCHANGED <<manager, robot>>

\* save, line 171: json.dump writes the next entry; after the last one the
\* file is closed and update returns
SaveWrite ==
    /\ pc = "write"
    /\ file' = WriteNextEntry(file, St)
    /\ pc' = IF IsComplete(file') THEN "tick" ELSE "write"
    /\ UNCHANGED <<orders, current_prices, current_timestamp, transaction_cost,
                   trailing_stop_penalty_relief, cash, asset_holdings,
                   portfolio_orders, processed_trades, positions,
                   valuation_history, exchange_orders, loaded>>
    /\ UNCHANGED <<manager, robot>>

\* the process stops while save is running
Crash ==
    /\ pc \in {"save", "write"}
    /\ pc' = "crashed"
    /\ UNCHANGED <<orders, current_prices, current_timestamp, transaction_cost,
                   trailing_stop_penalty_relief, cash, asset_holdings,
                   portfolio_orders, processed_trades, positions,
                   valuation_history, exchange_orders, file, loaded>>
    /\ UNCHANGED <<manager, robot>>

\* a new process loads the snapshot the crashed one left
Restart ==
    /\ pc = "crashed"
    /\ loaded' = from_file(file)
    /\ pc' = "restarted"
    /\ UNCHANGED <<orders, current_prices, current_timestamp, transaction_cost,
                   trailing_stop_penalty_relief, cash, asset_holdings,
                   portfolio_orders, processed_trades, positions,
                   valuation_history, exchange_orders, file>>
    /\ UNCHANGED <<manager, robot>>

\* the portfolio that from_file returned takes the place of the one that
\* was saved; from_file returns one only when no position was saved, and a
\* portfolio without a position holds no order
Adopt(l) ==
    /\ cash' = l.cash
    /\ asset_holdings' = l.asset_holdings
    /\ portfolio_orders' = [k \in DOMAIN l.orders |-> l.orders[k].id]
    /\ processed_trades' = l.processed_trades
    /\ positions' = l.positions
    /\ valuation_history' = l.valuation_history

\* execution pauses between two ticks and resumes from the snapshot, with
\* the same broker; an exception of from_file ends the run
Resume ==
    /\ pc = "tick"
    /\ file.exists
    /\ loaded = NotLoaded
    /\ loaded' = from_file(file)
    /\ IF loaded'.err = ""
       THEN Adopt(loaded') /\ pc' = "tick"
       ELSE /\ pc' = "aborted"
            /\ UNCHANGED <<cash, asset_holdings, portfolio_orders,
                           processed_trades, positions, valuation_history>>
    /\ UNCHANGED <<orders, current_prices, current_timestamp, transaction_cost,
                   trailing_stop_penalty_relief, exchange_orders, file>>
    /\ UNCHANGED <<manager, robot>>

NextPersist ==
    \/ \E prices \in PersistPriceMaps : PersistTick(prices)
    \/ \E args \in PersistArgs : OpenLong("X", args)
    \/ CloseLong("X")
    \/ Hold
    \/ UpdateThenSave
    \/ SaveOpen
    \/ SaveWrite
    \/ Crash
    \/ Restart
    \/ Resume

SpecPersist == Init /\ [][NextPersist]_vars

\* Portfolio.orders: the Order objects the portfolio holds
PortfolioOrders ==
    [k \in DOMAIN portfolio_orders |-> orders[portfolio_orders[k]]]

\* save has just completed: the file is the snapshot of the portfolio as it
\* is now
JustSaved == pc = "tick" /\ IsComplete(file) /\ loaded = NotLoaded

\* C16: from_file applied to the file that save has just written returns a
\* Portfolio whose cash, holdings, orders with their trades, processed trade
\* ids and positions are identical to those of the Portfolio that was saved,
\* whatever positions and orders it holds.
C16_SaveLoadRoundTrip ==
    JustSaved =>
       /\ from_file(file).err = ""
       /\ from_file(file).cash = cash
       /\ from_file(file).asset_holdings = asset_holdings
       /\ from_file(file).orders = PortfolioOrders
       /\ from_file(file).processed_trades = processed_trades
       /\ from_file(file).positions = positions

\* the state of the run once the Portfolio l that from_file returned has
\* taken the place of the saved one, the broker being the same
Resumed(l) ==
    [St EXCEPT !.cash = l.cash,
               !.asset_holdings = l.asset_holdings,
               !.portfolio_orders = [k \in DOMAIN l.orders |-> l.orders[k].id],
               !.processed_trades = l.processed_trades,
               !.positions = l.positions,
               !.valuation_history = l.valuation_history]

\* what update leaves: the exception if any, cash, holdings, the orders the
\* portfolio holds with their statuses, the positions
Outcome(r) ==
    [err |-> r.err, cash |-> r.cash, asset_holdings |-> r.asset_holdings,
     statuses |-> [k \in DOMAIN r.portfolio_orders |->
                      <<r.orders[r.portfolio_orders[k]].order_type,
                        r.orders[r.portfolio_orders[k]].status>>],
     positions |-> r.positions]

\* the next tick: Broker.update, then Portfolio.update
NextTickFrom(s, prices) ==
    update(broker_update(s, NextTimestamp, prices), NextTimestamp, prices)

\* C17: a Portfolio reconstructed by from_file from the snapshot that save
\* has just written, driven by the same next tick as the original, leaves the
\* same outcome of update as the original: from_file returns a Portfolio,
\* and cash, holdings, order statuses and positions after the tick agree.
C17_ResumeEquivalence ==
    JustSaved =>
       /\ from_file(file).err = ""
       /\ \A prices \in PersistPriceMaps :
             Outcome(NextTickFrom(Resumed(from_file(file)), prices))
                = Outcome(NextTickFrom(St, prices))

\* C18: whenever the process stopped during save, the from_file of the next
\* process reads a complete snapshot: it never meets a file that save had
\* only partly written.
C18_SnapshotNeverPartial ==
    pc = "restarted" =>
       /\ file.exists => IsComplete(file)
       /\ loaded.err # "JSONDecodeError"

----------------------------------------------------------------------------
(* The broker driven directly through its four write operations and update *)

\* create_order's arguments <<order_type, quantity, cash_amount, trail, limit,
\* stop, take_profit>>: each order type with its level fraction, sized
\* either way
AcceptedArgs ==
    {<<MARKET, None, R(256), None, None, None, None>>,
     <<MARKET, R(2), None, None, None, None, None>>,
     <<LIMIT, R(2), None, None, Frac(1, 8), None, None>>,
     <<STOP_LOSS, R(2), None, None, None, Frac(1, 8), None>>,
     <<TRAILING_STOP, R(2), None, Frac(1, 8), None, None, None>>,
     <<TAKE_PROFIT, R(2), None, None, None, None, Frac(1, 8)>>}

\* arguments that create_order rejects whatever the price
RejectedArgs ==
    {<<MARKET, None, None, None, None, None, None>>,
     <<MARKET, R(2), R(256), None, None, None, None>>,
     <<MARKET, R(0), None, None, None, None, None>>,
     <<MARKET, None, R(-1), None, None, None, None>>,
     <<TRAILING_STOP, R(2), None, Frac(1, 8), None, None, Frac(1, 8)>>,
     <<STOP_LOSS, R(2), None, None, None, None, None>>}

CreateOrderArgs == AcceptedArgs \cup RejectedArgs

\* the calls <<symbol, order_side, arguments>> made to create_order: every
\* accepted order on either side of X, the rejected arguments, and orders
\* for Y, which is never priced
CreateOrderCalls ==
    ({"X"} \X OrderSide \X AcceptedArgs)
        \cup ({"X"} \X {BUY} \X RejectedArgs)
        \cup ({"Y"} \X {BUY} \X {<<MARKET, R(2), None, None, None, None, None>>})

\* the price maps of a tick when the broker is driven directly: Y is never
\* priced
BrokerPriceMaps ==
    {Price(R(64), None), Price(R(120), None), Price(R(128), None)}

\* edit_order's stop argument
EditStops == {R(124)}

CommitBroker(r) ==
    /\ Len(r.orders) <= MaxBrokerOrders
    /\ orders' = r.orders
    /\ current_prices' = r.current_prices
    /\ current_timestamp' = r.current_timestamp
    /\ UNCHANGED <<transaction_cost, trailing_stop_penalty_relief, cash,
                   asset_holdings, portfolio_orders, processed_trades, positions,
                   valuation_history, pc, exchange_orders, file, loaded>>
    /\ UNCHANGED <<manager, robot>>

BrokerTick(prices) ==
    /\ NextTimestamp <= MaxBrokerTicks * TickSeconds
    /\ CommitBroker(broker_update(St, NextTimestamp, prices))

CreateOrder(symbol, order_side, a) ==
    CommitBroker(create_order(St, symbol, a[1], order_side, a[2], a[3], a[4], a[5], a[6], a[7]))

EditOrder(order_id, stop) == CommitBroker(edit_order(St, order_id, stop))

CancelOrder(order_id) == CommitBroker(cancel_order(St, order_id))

NextBroker ==
    \/ \E prices \in BrokerPriceMaps : BrokerTick(prices)
    \/ \E c \in CreateOrderCalls : CreateOrder(c[1], c[2], c[3])
    \/ \E order_id \in 1..(MaxBrokerOrders + 1), stop \in EditStops :
          EditOrder(order_id, stop)
    \/ \E order_id \in 1..(MaxBrokerOrders + 1) : CancelOrder(order_id)

SpecBroker == Init /\ [][NextBroker]_vars

----------------------------------------------------------------------------
(* The Portfolio and its BacktestBroker called in any order: broker ticks,  *)
(* open_long, close_long and update on one symbol                           *)

\* most orders at the broker
MaxCallOrders == 5

\* most broker ticks
MaxCallTicks == 3

\* the price maps of a tick: X at 64 or 128, Y not quoted
CallPriceMaps == {Price(R(64), None), Price(R(128), None)}

\* open_long's arguments: a quarter of the cash with a trail alone or with no
\* exit, and the whole cash with no exit
CallArgs ==
    {<<Frac(1, 4), Frac(1, 8), None, None>>, <<Frac(1, 4), None, None, None>>,
     <<R(1), None, None, None>>}

\* the state a call leaves; an exception ends the run
CommitCall(r) ==
    /\ Len(r.orders) <= MaxCallOrders
    /\ orders' = r.orders
    /\ current_prices' = r.current_prices
    /\ current_timestamp' = r.current_timestamp
    /\ cash' = r.cash
    /\ asset_holdings' = r.asset_holdings
    /\ portfolio_orders' = r.portfolio_orders
    /\ processed_trades' = r.processed_trades
    /\ positions' = r.positions
    /\ valuation_history' = r.valuation_history
    /\ pc' = IF r.err # "" THEN "aborted" ELSE "called"
    /\ UNCHANGED <<transaction_cost, trailing_stop_penalty_relief,
                   exchange_orders, file, loaded>>
    /\ UNCHANGED <<manager, robot>>

CallTick(prices) ==
    /\ pc # "aborted"
    /\ NextTimestamp <= MaxCallTicks * TickSeconds
    /\ CommitCall(broker_update(St, NextTimestamp, prices))

CallOpenLong(symbol, args) ==
    /\ pc # "aborted"
    /\ CommitCall(open_long(St, symbol, args[1], args[2], args[3], args[4]))

CallCloseLong ==
    /\ pc # "aborted"
    /\ CommitCall(close_long(St, "X"))

\* update(time, prices) with the tick's timestamp and prices, once per tick
CallUpdate ==
    /\ pc # "aborted"
    /\ current_timestamp # NoTime
    /\ \A k \in DOMAIN valuation_history :
          valuation_history[k].timestamp < current_timestamp
    /\ CommitCall(update(St, current_timestamp, current_prices))

NextCalls ==
    \/ \E prices \in CallPriceMaps : CallTick(prices)
    \/ \E args \in CallArgs : CallOpenLong("X", args)
    \/ CallCloseLong
    \/ CallUpdate

SpecCalls == Init /\ [][NextCalls]_vars

\* two symbols held at once: X at 64 or 256 and Y at 128, each opened with a
\* trail of 1/8, X with a take profit of 1/2 as well
PairPriceMaps == {Price(R(64), R(128)), Price(R(256), R(128))}

PairArgs ==
    {<<"X", <<Frac(1, 4), Frac(1, 8), Frac(1, 2), None>>>>,
     <<"Y", <<Frac(1, 4), Frac(1, 8), None, None>>>>}

NextPair ==
    \/ \E prices \in PairPriceMaps : CallTick(prices)
    \/ \E a \in PairArgs : CallOpenLong(a[1], a[2])
    \/ CallUpdate

SpecPair == Init /\ [][NextPair]_vars

\* the open positions on a symbol, by their place in Portfolio.positions
OpenPositions(symbol) ==
    {i \in DOMAIN positions : positions[i].symbol = symbol /\ positions[i].is_open}

\* C27: in every state reachable through any sequence of broker ticks,
\* open_long, close_long and update, there is at most one open Position per
\* symbol.
C27_OneOpenPositionPerSymbol ==
    \A symbol \in Symbols : Cardinality(OpenPositions(symbol)) <= 1

C39_OrderIdsOnOwnSymbol ==
    \A k \in DOMAIN positions :
       \A id \in Range(positions[k].order_ids) :
          id \in DOMAIN orders => orders[id].symbol = positions[k].symbol

----------------------------------------------------------------------------
(* Properties of BacktestBroker driven directly (SpecBroker) *)

\* the step is a call of BacktestBroker.update: only update moves the clock
IsUpdateStep == current_timestamp' # current_timestamp

\* the order is a TRAILING_STOP that is PENDING before and after the step
StaysPendingTrail(id) ==
    /\ orders[id].order_type = TRAILING_STOP
    /\ orders[id].status = PENDING
    /\ orders'[id].status = PENDING

\* the tick's price moved in the order's favour, or not at all: up for a SELL
\* order, down for a BUY order
FavourableMove(id) ==
    LET before == current_prices[orders[id].symbol]
        after == current_prices'[orders[id].symbol]
    IN /\ ~IsNone(before)
       /\ ~IsNone(after)
       /\ IF orders[id].order_side = BUY THEN RLe(after, before)
          ELSE RLe(before, after)

\* C4: across BacktestBroker.update calls and any price path, the stop of a
\* PENDING TRAILING_STOP order is only tightened: over one update the stop of
\* a SELL order never decreases and the stop of a BUY order never increases.
C4_TrailingStopOnlyTightens ==
    [][IsUpdateStep =>
          \A id \in DOMAIN orders :
             StaysPendingTrail(id) =>
                IF orders[id].order_side = BUY
                THEN RLe(orders'[id].stop, orders[id].stop)
                ELSE RLe(orders[id].stop, orders'[id].stop)]_vars

\* a PENDING SELL trailing stop created on an earlier tick whose stop an
\* update has raised to the current price less the trail
C4_SellStopRaised ==
    \E id \in DOMAIN orders :
       /\ orders[id].order_type = TRAILING_STOP
       /\ orders[id].order_side = SELL
       /\ orders[id].status = PENDING
       /\ orders[id].timestamp < current_timestamp
       /\ orders[id].stop \notin EditStops
       /\ orders[id].stop = RSub(current_prices[orders[id].symbol], orders[id].trail)
       /\ orders[id].stop # RMul(R(7), orders[id].trail)

\* C5 as the specification words it: under favourable price movement the
\* stop of a PENDING TRAILING_STOP order is non-decreasing for a BUY order and
\* non-increasing for a SELL order.
C5_StopDirectionAsStated ==
    [][IsUpdateStep =>
          \A id \in DOMAIN orders :
             StaysPendingTrail(id) /\ FavourableMove(id) =>
                IF orders[id].order_side = BUY
                THEN RLe(orders[id].stop, orders'[id].stop)
                ELSE RLe(orders'[id].stop, orders[id].stop)]_vars

\* C5 with the sides the code gives: under favourable price movement the stop
\* of a PENDING TRAILING_STOP order is non-increasing for a BUY order and
\* non-decreasing for a SELL order; it never reverses.
C5_StopDirection ==
    [][IsUpdateStep =>
          \A id \in DOMAIN orders :
             StaysPendingTrail(id) /\ FavourableMove(id) =>
                IF orders[id].order_side = BUY
                THEN RLe(orders'[id].stop, orders[id].stop)
                ELSE RLe(orders[id].stop, orders'[id].stop)]_vars

\* a PENDING BUY trailing stop created on an earlier tick whose stop an
\* update has lowered to the current price plus the trail
C5_BuyStopLowered ==
    \E id \in DOMAIN orders :
       /\ orders[id].order_type = TRAILING_STOP
       /\ orders[id].order_side = BUY
       /\ orders[id].status = PENDING
       /\ orders[id].timestamp < current_timestamp
       /\ orders[id].stop \notin EditStops
       /\ orders[id].stop = RAdd(current_prices[orders[id].symbol], orders[id].trail)
       /\ orders[id].stop # RMul(R(9), orders[id].trail)

\* C6 as the specification words it: an order's status changes only
\* PENDING -> FILLED, PENDING -> CANCELLED or PENDING -> PARTIALLY_FILLED ->
\* FILLED, and once an order is FILLED or CANCELLED its status, its fields and
\* its trades never change again.
C6_TerminalOrdersFrozen ==
    [][\A id \in DOMAIN orders :
          /\ orders[id].status \in {FILLED, CANCELLED} => orders'[id] = orders[id]
          /\ orders'[id].status # orders[id].status =>
                \/ orders[id].status = PENDING
                \/ orders[id].status = PARTIALLY_FILLED /\ orders'[id].status = FILLED
      ]_vars

\* C7 as the specification words it: edit_order and cancel_order called with
\* an unknown id or with the id of an order that is not PENDING leave the
\* broker's order table unchanged.
C7_EditCancelPendingOnly ==
    \A order_id \in 1..(MaxBrokerOrders + 1) :
       (order_id \notin DOMAIN orders \/ orders[order_id].status # PENDING) =>
          /\ cancel_order(St, order_id).orders = orders
          /\ \A stop \in EditStops : edit_order(St, order_id, stop).orders = orders

\* the arguments that size an order or set its levels, None for one not given
SizingValues == {None, R(-1), R(0), R(2)}

CashValues == {None, R(-1), R(0), R(256)}

Fractions == {None, Frac(1, 8)}

\* exactly one of quantity / cash_amount is given and it is positive
ExactlyOnePositive(quantity, cash_amount) ==
    \/ ~IsNone(quantity) /\ IsNone(cash_amount) /\ RLt(R(0), quantity)
    \/ IsNone(quantity) /\ ~IsNone(cash_amount) /\ RLt(R(0), cash_amount)

ValidationErrors ==
    {"ValueError: Exactly one of quantity or cash_amount must be provided",
     "ValueError: Quantity must be positive",
     "ValueError: Cash amount must be positive",
     "ValueError: Only one of trail or take_profit can be set"}

\* C8 for BacktestBroker: in every reachable state of the broker, create_order
\* succeeds only if exactly one of quantity / cash_amount is given and is
\* positive and trail and take_profit are not both set; otherwise it raises
\* one of the four validation errors and the order table is unchanged.
C8_BacktestCreateOrderValidates ==
    \A symbol \in Symbols, order_type \in OrderType, order_side \in OrderSide :
       \A quantity \in SizingValues, cash_amount \in CashValues :
          \A trail \in Fractions, take_profit \in Fractions :
             LET r == create_order(St, symbol, order_type, order_side, quantity,
                                   cash_amount, trail, Frac(1, 8), Frac(1, 8),
                                   take_profit)
                 valid == /\ ExactlyOnePositive(quantity, cash_amount)
                          /\ IsNone(trail) \/ IsNone(take_profit)
             IN /\ r.err = "" => valid
                /\ ~valid => r.err \in ValidationErrors /\ r.orders = orders

\* the current price of the symbol is not strictly positive, or the symbol is
\* absent from the last price map
NoUsablePrice(symbol) ==
    IsNone(current_prices[symbol]) \/ RLe(current_prices[symbol], R(0))

\* C9: create_order fails with the pricing error when the current price of
\* the symbol is not strictly positive or the symbol is absent from the last
\* price map (the call's arguments being valid), and a create_order call that
\* fails for any reason leaves the order table, and with it the trades,
\* unchanged.
C9_PricingErrorAndNoOrderOnFailure ==
    \A symbol \in Symbols, order_side \in OrderSide, a \in CreateOrderArgs :
       LET r == create_order(St, symbol, a[1], order_side, a[2], a[3], a[4], a[5],
                             a[6], a[7])
       IN /\ NoUsablePrice(symbol) => r.err # ""
          /\ NoUsablePrice(symbol) /\ SizingError(a[2], a[3], a[4], a[7]) = ""
                => r.err = "ValueError: Invalid price"
          /\ r.err # "" => r.orders = orders

\* X is priced, Y is absent from the last price map, the table holds an order
\* and a valid create_order for Y fails with the pricing error
C9_UnpricedSymbolRejected ==
    /\ Len(orders) = 1
    /\ ~NoUsablePrice("X")
    /\ IsNone(current_prices["Y"])
    /\ create_order(St, "Y", MARKET, BUY, R(2), None, None, None, None, None).err
          = "ValueError: Invalid price"

\* C10: a MARKET or LIMIT order created against a strictly positive price is
\* returned FILLED with exactly one trade; a STOP_LOSS, TRAILING_STOP or
\* TAKE_PROFIT order is returned PENDING with no trades.
C10_FilledOrPendingAtCreation ==
    \A symbol \in Symbols, order_side \in OrderSide, a \in CreateOrderArgs :
       LET r == create_order(St, symbol, a[1], order_side, a[2], a[3], a[4], a[5],
                             a[6], a[7])
       IN r.err = "" =>
             /\ r.ret = Len(orders) + 1
             /\ r.orders[r.ret].order_type = a[1]
             /\ a[1] \in {MARKET, LIMIT} =>
                   /\ r.orders[r.ret].status = FILLED
                   /\ Len(r.orders[r.ret].trades) = 1
             /\ a[1] \in {STOP_LOSS, TRAILING_STOP, TAKE_PROFIT} =>
                   /\ r.orders[r.ret].status = PENDING
                   /\ r.orders[r.ret].trades = <<>>

\* the table holds a LIMIT order that create_order executed: FILLED, with one
\* trade stamped with the order's own timestamp
C10_LimitFilledAtCreation ==
    \E id \in DOMAIN orders :
       /\ orders[id].order_type = LIMIT
       /\ orders[id].status = FILLED
       /\ Len(orders[id].trades) = 1
       /\ orders[id].trades[1].timestamp = orders[id].timestamp

\* cash-sized create_order arguments of every order type
CashSizedArgs ==
    {<<MARKET, None, R(256), None, None, None, None>>,
     <<MARKET, None, R(100), None, None, None, None>>,
     <<LIMIT, None, R(256), None, Frac(1, 8), None, None>>,
     <<STOP_LOSS, None, R(256), None, None, Frac(1, 8), None>>,
     <<TRAILING_STOP, None, R(100), Frac(1, 8), None, None, None>>,
     <<TAKE_PROFIT, None, R(256), None, None, None, Frac(1, 8)>>}

\* price * quantity plus the transaction costs charged on it
TotalCost(price, quantity) ==
    RAdd(RMul(price, quantity), RMul(RMul(price, quantity), transaction_cost))

Loosens(order, stop) ==
    /\ order.order_type = TRAILING_STOP
    /\ order.status = PENDING
    /\ IF order.order_side = BUY THEN RLt(order.stop, stop)
       ELSE RLt(stop, order.stop)

\* C33: edit_order on a PENDING TRAILING_STOP with a stop that loosens it
\* (lower for a SELL order, higher for a BUY order) fails and leaves the
\* order's stop unchanged.
C33_LooseningRejected ==
    \A id \in DOMAIN orders, stop \in EditStops :
       Loosens(orders[id], stop) =>
          /\ edit_order(St, id, stop).err # ""
          /\ edit_order(St, id, stop).orders[id].stop = orders[id].stop

----------------------------------------------------------------------------
(* BacktestBroker driven directly with one order of each type, over prices *)
(* that fall short of, meet and pass the orders' levels (SpecLevels)       *)

\* the price maps of a tick: X from 96 to 160, Y never priced
LevelPriceMaps ==
    {Price(R(96), None), Price(R(112), None), Price(R(128), None),
     Price(R(144), None), Price(R(160), None)}

\* the calls <<symbol, order_side, arguments>> made to create_order: a
\* STOP_LOSS, a TAKE_PROFIT, a LIMIT and a TRAILING_STOP order at 1/8 from the
\* price and a MARKET order, on either side of X
LevelCalls ==
    {"X"} \X OrderSide \X
       {<<STOP_LOSS, R(2), None, None, None, Frac(1, 8), None>>,
        <<TAKE_PROFIT, R(2), None, None, None, None, Frac(1, 8)>>,
        <<LIMIT, R(2), None, None, Frac(1, 8), None, None>>,
        <<TRAILING_STOP, R(2), None, Frac(1, 8), None, None, None>>,
        <<MARKET, R(2), None, None, None, None, None>>}

NextLevels ==
    \/ \E prices \in LevelPriceMaps : BrokerTick(prices)
    \/ \E c \in LevelCalls : CreateOrder(c[1], c[2], c[3])
    \/ \E order_id \in 1..MaxBrokerOrders : CancelOrder(order_id)

SpecLevels == Init /\ [][NextLevels]_vars

\* the order is a STOP_LOSS or a TAKE_PROFIT that is PENDING when update is
\* called with a price for its symbol
PendingFixedLevel(id) ==
    /\ orders[id].order_type \in {STOP_LOSS, TAKE_PROFIT}
    /\ orders[id].status = PENDING
    /\ ~IsNone(current_prices'[orders[id].symbol])

\* the tick's price is at or beyond the order's level: at or above it for a
\* BUY STOP_LOSS and a SELL TAKE_PROFIT, at or below it for a SELL STOP_LOSS
\* and a BUY TAKE_PROFIT
AtOrBeyond(order, price) ==
    IF (order.order_type = STOP_LOSS /\ order.order_side = BUY)
          \/ (order.order_type = TAKE_PROFIT /\ order.order_side = SELL)
    THEN RLe(order.stop, price)
    ELSE RLe(price, order.stop)

\* C28: on BacktestBroker.update, a PENDING STOP_LOSS or TAKE_PROFIT order is
\* FILLED exactly when the tick price is at or beyond its level (STOP_LOSS:
\* price >= stop on the BUY side, price <= stop on the SELL side; TAKE_PROFIT:
\* price >= target on the SELL side, price <= target on the BUY side), and
\* otherwise stays PENDING with its level and its trades unchanged.
C28_FixedLevelFills ==
    [][IsUpdateStep =>
          \A id \in DOMAIN orders :
             PendingFixedLevel(id) =>
                IF AtOrBeyond(orders[id], current_prices'[orders[id].symbol])
                THEN /\ orders'[id].status = FILLED
                     /\ orders'[id].stop = orders[id].stop
                ELSE orders'[id] = orders[id]]_vars

\* a SELL STOP_LOSS has been filled by an update at a price equal to its
\* level (created at 128 with a stop of 112, filled at 112)
C28_FilledAtItsLevel ==
    \E id \in DOMAIN orders :
       /\ orders[id].order_type = STOP_LOSS
       /\ orders[id].order_side = SELL
       /\ orders[id].status = FILLED
       /\ Len(orders[id].trades) = 1
       /\ orders[id].trades[1].price = orders[id].stop
       /\ orders[id].trades[1].timestamp > orders[id].timestamp
       /\ current_prices[orders[id].symbol] = orders[id].stop

\* C29: a LIMIT order is filled only at a price at or better than its
\* limit_amount: no trade of a BUY LIMIT is above it, none of a SELL LIMIT
\* below it.
C29_LimitFillsAtOrBetter ==
    \A id \in DOMAIN orders :
       orders[id].order_type = LIMIT =>
          \A k \in DOMAIN orders[id].trades :
             IF orders[id].order_side = BUY
             THEN RLe(orders[id].trades[k].price, orders[id].limit)
             ELSE RLe(orders[id].limit, orders[id].trades[k].price)

\* the trades the order had before the step: none if the step creates it
TradesBefore(id) == IF id \in DOMAIN orders THEN orders[id].trades ELSE <<>>

\* the step fills the order: it is FILLED after the step and was not before
IsFill(id) ==
    /\ orders'[id].status = FILLED
    /\ id \in DOMAIN orders => orders[id].status # FILLED

\* the one trade of a fill: the order's full quantity, with costs of the
\* trade's price x quantity x transaction_cost
OneCostedTrade(id) ==
    /\ Len(orders'[id].trades) = Len(TradesBefore(id)) + 1
    /\ SubSeq(orders'[id].trades, 1, Len(TradesBefore(id))) = TradesBefore(id)
    /\ LET trade == orders'[id].trades[Len(orders'[id].trades)]
       IN /\ trade.quantity = orders'[id].quantity
          /\ trade.order_id = orders'[id].id
          /\ trade.transaction_costs
                = RMul(RMul(trade.price, trade.quantity), transaction_cost)

\* C30: each fill sets the order FILLED and appends exactly one Trade, for the
\* order's full quantity and with transaction_costs = price x quantity x the
\* broker's cost rate; update leaves an order that is FILLED or CANCELLED as
\* it is, so that an order has at most one trade and a CANCELLED order never
\* gains one.
C30_OneTradePerFill ==
    [][\A id \in DOMAIN orders' :
          /\ IsFill(id) => OneCostedTrade(id)
          /\ ~IsFill(id) => orders'[id].trades = TradesBefore(id)
          /\ Len(orders'[id].trades) <= 1
          /\ id \in DOMAIN orders /\ orders[id].status \in {FILLED, CANCELLED} =>
                /\ orders'[id].trades = orders[id].trades
                /\ IsUpdateStep => orders'[id] = orders[id]]_vars

\* an update has filled a pending order: the broker holds a trailing stop
\* filled after its creation, with one trade of the order's quantity costed
\* at price x quantity x rate
C30_PendingFilledOnce ==
    \E id \in DOMAIN orders :
       /\ orders[id].order_type = TRAILING_STOP
       /\ orders[id].status = FILLED
       /\ Len(orders[id].trades) = 1
       /\ orders[id].trades[1].timestamp > orders[id].timestamp
       /\ orders[id].trades[1].quantity = R(2)
       /\ orders[id].trades[1].transaction_costs
             = RMul(RMul(orders[id].trades[1].price, R(2)), transaction_cost)
       /\ RLt(R(0), orders[id].trades[1].transaction_costs)

\* the fraction given as trail to create_order by every call of LevelCalls
TrailFraction == Frac(1, 8)

\* the stop that the tick's price and the fraction given at creation propose:
\* below the price for a SELL order, above it for a BUY order
CandidateStop(order_side, current_price) ==
    IF order_side = BUY
    THEN RMul(current_price, RAdd(R(1), TrailFraction))
    ELSE RMul(current_price, RSub(R(1), TrailFraction))

\* C31: on each tick where a PENDING TRAILING_STOP does not fill, its stop
\* becomes current_price x (1 - trail_fraction) for a SELL order and
\* current_price x (1 + trail_fraction) for a BUY order when that tightens the
\* stop, and stays as it is otherwise.
C31_StopRecomputedFromFraction ==
    [][IsUpdateStep =>
          \A id \in DOMAIN orders :
             StaysPendingTrail(id) =>
                LET candidate == CandidateStop(orders[id].order_side,
                                               current_prices'[orders[id].symbol])
                    tightens == IF orders[id].order_side = BUY
                                THEN RLt(candidate, orders[id].stop)
                                ELSE RLt(orders[id].stop, candidate)
                IN orders'[id].stop = IF tightens THEN candidate
                                      ELSE orders[id].stop]_vars

----------------------------------------------------------------------------
(* The broker's trailing stops under every penalty relief *)

\* BacktestBroker(trailing_stop_penalty_relief=...)
ReliefValues == {R(0), Frac(1, 4), Frac(3, 4), R(1)}

InitRelief ==
    /\ orders = <<>>
    /\ current_prices = [sym \in Symbols |-> None]
    /\ current_timestamp = NoTime
    /\ transaction_cost \in CostRates
    /\ trailing_stop_penalty_relief \in ReliefValues
    /\ cash = InitialCash
    /\ asset_holdings = [sym \in Symbols |-> None]
    /\ portfolio_orders = <<>>
    /\ processed_trades = {}
    /\ positions = <<>>
    /\ valuation_history = <<>>
    /\ pc = "tick"
    /\ exchange_orders = <<>>
    /\ file = NoFile
    /\ loaded = NotLoaded
    /\ manager = NoManager
    /\ robot = NotRunning

\* create_order's arguments for a trailing stop
TrailingArgs == {<<TRAILING_STOP, R(2), None, Frac(1, 8), None, None, None>>}

NextRelief ==
    \/ \E prices \in BrokerPriceMaps : BrokerTick(prices)
    \/ \E order_side \in OrderSide, a \in TrailingArgs :
          CreateOrder("X", order_side, a)

SpecRelief == InitRelief /\ [][NextRelief]_vars

\* the update step fills the PENDING trailing stop id
TrailFills(id) ==
    /\ IsUpdateStep
    /\ orders[id].order_type = TRAILING_STOP
    /\ orders[id].status = PENDING
    /\ orders'[id].status = FILLED

\* the price of the trade the step records for the order
FillPrice(id) == orders'[id].trades[Len(orders'[id].trades)].price

\* C14 as stated: the fill price of a TRAILING_STOP lies between the stop
\* level and the tick price; penalty_relief = 0 gives a fill exactly at the
\* stop level and penalty_relief = 1 a fill at the tick price.
C14_ReliefInterpolatesAsStated ==
    [][\A id \in DOMAIN orders :
          TrailFills(id) =>
             /\ Between(FillPrice(id), orders[id].stop,
                        current_prices'[orders[id].symbol])
             /\ trailing_stop_penalty_relief = R(0) =>
                   FillPrice(id) = orders[id].stop
             /\ trailing_stop_penalty_relief = R(1) =>
                   FillPrice(id) = current_prices'[orders[id].symbol]]_vars

\* C14, amended: the fill price of a TRAILING_STOP is
\* penalty_relief * stop + (1 - penalty_relief) * tick price, which lies
\* between the stop level and the tick price for every penalty_relief in
\* [0, 1]; penalty_relief = 0 gives a fill at the tick price and
\* penalty_relief = 1 a fill exactly at the stop level.
C14_ReliefInterpolates ==
    [][\A id \in DOMAIN orders :
          TrailFills(id) =>
             /\ FillPrice(id)
                   = RAdd(RMul(trailing_stop_penalty_relief, orders[id].stop),
                          RMul(RSub(R(1), trailing_stop_penalty_relief),
                               current_prices'[orders[id].symbol]))
             /\ Between(FillPrice(id), orders[id].stop,
                        current_prices'[orders[id].symbol])
             /\ trailing_stop_penalty_relief = R(0) =>
                   FillPrice(id) = current_prices'[orders[id].symbol]
             /\ trailing_stop_penalty_relief = R(1) =>
                   FillPrice(id) = orders[id].stop]_vars

\* with a relief of 1 a trailing stop has filled exactly at its stop level,
\* the tick price having gone past the stop
C14_FullReliefFillsAtStop ==
    /\ trailing_stop_penalty_relief = R(1)
    /\ \E id \in TrailingStops(FILLED) :
          /\ Len(orders[id].trades) = 1
          /\ orders[id].trades[1].price = orders[id].stop
          /\ orders[id].trades[1].timestamp = current_timestamp - OneSecond
          /\ current_prices[orders[id].symbol] # orders[id].stop

----------------------------------------------------------------------------
(* CCXTBroker driven directly through create_order *)

\* create_order's arguments <<order_type, order_side, quantity, cash_amount,
\* trail, take_profit>>
CCXTCreateArgs ==
    {<<MARKET, BUY, R(2), None, None, None>>,
     <<MARKET, BUY, None, R(256), None, None>>,
     <<MARKET, SELL, None, R(256), None, None>>,
     <<TRAILING_STOP, SELL, R(2), None, Frac(1, 8), None>>,
     <<TAKE_PROFIT, SELL, R(2), None, None, Frac(1, 8)>>,
     <<MARKET, BUY, None, None, None, None>>,
     <<MARKET, BUY, R(2), R(256), None, None>>,
     <<MARKET, SELL, R(0), None, None, None>>,
     <<MARKET, BUY, None, R(-1), None, None>>,
     <<TRAILING_STOP, SELL, R(2), None, Frac(1, 8), Frac(1, 8)>>}

CCXTCreateOrder(symbol, a, outcome) ==
    /\ Len(exchange_orders) < MaxExchangeOrders
    /\ exchange_orders' =
           ccxt_create_order(exchange_orders, symbol, a[1], a[2], a[3], a[4], a[5],
                             None, None, a[6], outcome).exchange_orders
    /\ UNCHANGED <<orders, current_prices, current_timestamp, transaction_cost,
                   trailing_stop_penalty_relief, cash, asset_holdings,
                   portfolio_orders, processed_trades, positions,
                   valuation_history, pc, file, loaded>>
    /\ UNCHANGED <<manager, robot>>

NextCCXT ==
    \E symbol \in Symbols, a \in CCXTCreateArgs, outcome \in ExchangeOutcomes :
        CCXTCreateOrder(symbol, a, outcome)

SpecCCXT == Init /\ [][NextCCXT]_vars

\* C8 as the specification words it, for CCXTBroker: create_order succeeds
\* only if exactly one of quantity / cash_amount is given and is positive and
\* trail and take_profit are not both set; otherwise it raises a validation
\* error, whatever the exchange would answer.
C8_CCXTCreateOrderValidates ==
    \A symbol \in Symbols, order_type \in OrderType, order_side \in OrderSide :
       \A quantity \in SizingValues, cash_amount \in CashValues :
          \A trail \in Fractions, take_profit \in Fractions :
             \A outcome \in ExchangeOutcomes :
                LET r == ccxt_create_order(exchange_orders, symbol, order_type,
                                           order_side, quantity, cash_amount,
                                           trail, None, None, take_profit, outcome)
                    valid == /\ ExactlyOnePositive(quantity, cash_amount)
                             /\ IsNone(trail) \/ IsNone(take_profit)
                IN /\ r.err = "" => valid
                   /\ ~valid =>
                         /\ r.err = "ValueError: Either quantity or cash_amount must be provided"
                         /\ r.exchange_orders = exchange_orders

----------------------------------------------------------------------------
(* portfolio_manager.py and robo_trader.py: the PortfolioManager that       *)
(* RoboTrader.run drives.  Its buy sizes the order to the whole cash and    *)
(* its sell to the missing reserve, so the outcome of the comparisons in    *)
(* execute_trade depends on the rounding of each float operation: a float   *)
(* is modelled as a binary floating-point number with a significand of      *)
(* FloatBits bits, and every operation rounds its exact result to the       *)
(* nearest such number, ties to even.  CPython's float has 53 bits; 14 keep *)
(* every intermediate product within 32-bit integers, and leave sums and    *)
(* products of the small integers used here exact, as they are in a double. *)

FloatBits == 14

\* the smallest e >= 1 with n / d < 2^e, for n / d >= 1
RECURSIVE ExponentUp(_, _, _)
ExponentUp(n, d, e) == IF n < d * 2^e THEN e ELSE ExponentUp(n, d, e + 1)

\* the largest k >= 0 with n / d < 2^(-k), for 0 < n / d < 1
RECURSIVE ExponentDown(_, _, _)
ExponentDown(n, d, k) ==
    IF n * 2^(k + 1) < d THEN ExponentDown(n, d, k + 1) ELSE k

\* n / d rounded to an integer, ties to even
RoundEven(n, d) ==
    LET q == n \div d
        r == n - q * d
    IN IF 2 * r > d \/ (2 * r = d /\ q % 2 = 1) THEN q + 1 ELSE q

\* the largest j <= s with 2^j dividing d
RECURSIVE SharedTwos(_, _, _)
SharedTwos(d, s, j) ==
    IF j < s /\ d % 2^(j + 1) = 0 THEN SharedTwos(d, s, j + 1) ELSE j

\* n * 2^s / d rounded to an integer, ties to even; the powers of two that
\* 2^s and d share are cancelled before multiplying
RoundScaled(n, d, s) ==
    LET j == SharedTwos(d, s, 0)
    IN RoundEven(n * 2^(s - j), d \div 2^j)

\* the float nearest to the positive rational x
RoundPositive(x) ==
    IF x[1] >= x[2]
    THEN LET e == ExponentUp(x[1], x[2], 1)
         IN IF e <= FloatBits
            THEN Norm(RoundScaled(x[1], x[2], FloatBits - e), 2^(FloatBits - e))
            ELSE <<RoundEven(x[1], x[2] * 2^(e - FloatBits)) * 2^(e - FloatBits), 1>>
    ELSE LET k == ExponentDown(x[1], x[2], 0)
         IN Norm(RoundScaled(x[1], x[2], FloatBits + k), 2^(FloatBits + k))

\* the float nearest to the rational x
Float(x) ==
    IF x[1] = 0 THEN R(0)
    ELSE IF x[1] > 0 THEN RoundPositive(x)
    ELSE RNeg(RoundPositive(RNeg(x)))

\* Python's +, -, * and / on floats
FAdd(a, b) == Float(RAdd(a, b))

FSub(a, b) == Float(RSub(a, b))

FMul(a, b) == Float(RMul(a, b))

FDiv(a, b) == Float(RDiv(a, b))

\* TradeAction
TradeBuy == "BUY"

TradeSell == "SELL"

\* PortfolioManager(symbol, initial_cash, initial_tokens, transaction_costs,
\* cash_reserve_percentage): __init__, which ends with save_state
PortfolioManager(initial_cash, initial_tokens, costs, reserve) ==
    [cash |-> initial_cash, tokens |-> initial_tokens,
     transaction_costs |-> costs, cash_reserve_percentage |-> reserve,
     trades |-> <<>>,
     saved |-> [cash |-> initial_cash, tokens |-> initial_tokens, trades |-> <<>>],
     err |-> ""]

\* get_current_price(override)
get_current_price(override) == IF IsNone(override) THEN R(100) ELSE override

\* calculate_trade_cost(trade_amount, price_override)
calculate_trade_cost(m, trade_amount, price_override) ==
    FMul(FMul(get_current_price(price_override), trade_amount),
         m.transaction_costs)

\* save_state(): cash, tokens and trades as written to the file
save_state(m) ==
    [m EXCEPT !.saved = [cash |-> m.cash, tokens |-> m.tokens, trades |-> m.trades]]

\* the record execute_trade appends (the date left out)
TradeRecord(m, action, trade_amount, price, cost) ==
    [action |-> action, trade_amount |-> trade_amount, price |-> price,
     cost |-> cost, current_tokens |-> m.tokens, current_cash |-> m.cash]

\* execute_trade(action, trade_amount, price_override)
execute_trade(m, action, trade_amount, price_override) ==
    LET price == get_current_price(price_override)
        cost == calculate_trade_cost(m, trade_amount, price_override)
        cash_value == FMul(price, trade_amount)
        m1 == IF action = TradeBuy
              THEN [m EXCEPT !.cash = FSub(@, FAdd(cash_value, cost)),
                             !.tokens = FAdd(@, trade_amount)]
              ELSE [m EXCEPT !.cash = FAdd(@, FSub(cash_value, cost)),
                             !.tokens = FSub(@, trade_amount)]
    IN IF action = TradeBuy /\ RLt(m.cash, FAdd(cash_value, cost))
       THEN [m EXCEPT !.err = "ValueError: Not enough cash"]
       ELSE IF action = TradeSell /\ RLt(m.tokens, trade_amount)
       THEN [m EXCEPT !.err = "ValueError: Not enough tokens"]
       ELSE save_state([m1 EXCEPT !.trades =
                           Append(@, TradeRecord(m1, action, trade_amount,
                                                 price, cost))])

\* buy(price_override)
buy(m, price_override) ==
    LET current_price == get_current_price(price_override)
        divisor == FMul(current_price, FAdd(R(1), m.transaction_costs))
    IN IF divisor[1] = 0 THEN [m EXCEPT !.err = "ZeroDivisionError"]
       ELSE execute_trade(m, TradeBuy, FDiv(m.cash, divisor), price_override)

\* sell(price_override)
sell(m, price_override) ==
    LET price == get_current_price(price_override)
        current_asset_value == FMul(m.tokens, price)
        cash_reserve_required ==
            FMul(FAdd(m.cash, current_asset_value), m.cash_reserve_percentage)
        residual_holding ==
            FSub(m.tokens, FDiv(FSub(cash_reserve_required, m.cash), price))
        trade_amount ==
            RMax(IF RLt(m.cash, cash_reserve_required)
                 THEN FSub(m.tokens, residual_holding)
                 ELSE m.tokens,
                 R(0))
    IN IF ~RLt(R(0), m.tokens) THEN m
       ELSE IF price[1] = 0 /\ RLt(m.cash, cash_reserve_required)
       THEN [m EXCEPT !.err = "ZeroDivisionError"]
       ELSE IF RLt(R(0), trade_amount)
       THEN execute_trade(m, TradeSell, trade_amount, price_override)
       ELSE m

\* RoboTrader.act_on_signal(signal, current_price)
act_on_signal(m, signal, current_price) ==
    IF signal = "BUY" THEN buy(m, current_price)
    ELSE IF signal = "SELL" THEN sell(m, current_price)
    ELSE m

\* the PortfolioManagers RoboTrader is given: 1000 in cash, costs of 1/4, a
\* reserve of a half or of the whole value, and no tokens or 20
ManagerReserves == {Frac(1, 2), R(1)}

ManagerTokens == {R(0), R(20)}

\* the closing prices of the rows the price provider returns: 1000 / (64 * 1.25)
\* is exact, the quotients by 78 * 1.25 and 112 * 1.25 are rounded
ClosePrices == {R(64), R(78), R(112)}

\* what generate_signal returns
Signals == {"BUY", "SELL", "NONE"}

MaxIterations == 3

\* RoboTrader(symbol, price_provider, signal_generator, portfolio_manager)
\* .run(exit_after): the state on entry of the loop
Run(exit_after, initial_tokens, reserve) ==
    /\ robot = NotRunning
    /\ manager' = PortfolioManager(R(1000), initial_tokens, Frac(1, 4), reserve)
    /\ robot' = [status |-> "running", exit_after |-> exit_after,
                 iterations |-> 0, rows |-> 0, signals |-> <<>>, err |-> ""]
    /\ UNCHANGED <<orders, current_prices, current_timestamp, transaction_cost,
                   trailing_stop_penalty_relief, cash, asset_holdings,
                   portfolio_orders, processed_trades, positions,
                   valuation_history, pc, exchange_orders, file, loaded>>

\* one pass of run's loop: a row is added to the signal generator's history,
\* the signal is acted on, and the loop is left once exit_after passes are
\* done; an exception of the PortfolioManager leaves run
Iteration(close_price, signal) ==
    /\ robot.status = "running"
    /\ LET r == act_on_signal(manager, signal, close_price)
       IN /\ manager' = [r EXCEPT !.err = ""]
          /\ robot' =
                IF r.err # ""
                THEN [robot EXCEPT !.status = "raised", !.err = r.err,
                                   !.rows = @ + 1,
                                   !.signals = Append(@, signal)]
                ELSE [robot EXCEPT
                         !.rows = @ + 1,
                         !.signals = Append(@, signal),
                         !.iterations = @ + 1,
                         !.status = IF robot.exit_after <= robot.iterations + 1
                                    THEN "returned" ELSE "running"]
    /\ UNCHANGED <<orders, current_prices, current_timestamp, transaction_cost,
                   trailing_stop_penalty_relief, cash, asset_holdings,
                   portfolio_orders, processed_trades, positions,
                   valuation_history, pc, exchange_orders, file, loaded>>

NextRobo ==
    \/ \E exit_after \in 1..MaxIterations, initial_tokens \in ManagerTokens,
          reserve \in ManagerReserves : Run(exit_after, initial_tokens, reserve)
    \/ \E close_price \in ClosePrices, signal \in Signals :
          Iteration(close_price, signal)

SpecRobo == Init /\ [][NextRobo]_vars

----------------------------------------------------------------------------
(* Properties of RoboTrader.run and its PortfolioManager (SpecRobo)         *)

\* every signal of the passes made so far was BUY
OnlyBuySignals ==
    \A i \in 1..Len(robot.signals) : robot.signals[i] = "BUY"

\* C35: run(exit_after = n) with n >= 1 returns after exactly n passes of its
\* loop, each of which added one row to the signal generator's history and
\* made at most one trade; and when every signal was BUY no pass raised for
\* lack of cash and the manager holds tokens once a pass is done.
C35_RunReturnsAfterNPasses ==
    robot.status # "not called" =>
        /\ robot.iterations <= robot.exit_after
        /\ robot.status = "returned" =>
              /\ robot.iterations = robot.exit_after
              /\ robot.rows = robot.exit_after
        /\ robot.status = "running" => robot.iterations < robot.exit_after
        /\ Len(manager.trades) <= robot.rows
        /\ OnlyBuySignals =>
              /\ robot.status # "raised"
              /\ robot.rows >= 1 => RLt(R(0), manager.tokens)

\* two token amounts that differ by rounding only
Tolerance == Frac(1, 64)

Near(a, b) == RLe(RSub(a, b), Tolerance) /\ RLe(RSub(b, a), Tolerance)

\* the amount the reserve rule asks sell to sell: the tokens worth the
\* missing reserve when the cash is below the reserve, every token otherwise
AmountToSell(m, price) ==
    LET required == FMul(FAdd(m.cash, FMul(m.tokens, price)),
                         m.cash_reserve_percentage)
    IN IF RLt(m.cash, required)
       THEN FDiv(FSub(required, m.cash), price)
       ELSE m.tokens

\* sell(price) on the manager m did what the reserve rule asks
SoldByTheRule(m, price) ==
    LET r == sell(m, price)
        trade == r.trades[Len(r.trades)]
        sold == trade.trade_amount
        cost == FMul(FMul(price, sold), m.transaction_costs)
    IN IF ~RLt(R(0), m.tokens) THEN r = m
       ELSE /\ r.err = ""
            /\ Len(r.trades) = Len(m.trades) + 1
            /\ trade.action = TradeSell
            /\ Near(sold, AmountToSell(m, price))
            /\ r.tokens = FSub(m.tokens, sold)
            /\ r.cash = FAdd(m.cash, FSub(FMul(price, sold), cost))
            /\ trade.current_tokens = r.tokens
            /\ trade.current_cash = r.cash

\* C34: sell() on a manager holding tokens sells the tokens worth the missing
\* reserve when the cash is below cash_reserve_percentage of the portfolio's
\* value and every token otherwise, takes the amount from the tokens, adds
\* its value less the transaction cost to the cash and appends exactly one
\* trade holding the tokens and cash after it; on a manager without tokens
\* it does nothing.
C34_SellKeepsTheReserve ==
    robot.status = "running" =>
        \A price \in ClosePrices : SoldByTheRule(manager, price)

====
